---- MODULE Spec2Model ----
(***************************************************************************)
(* Datadog alert documentation generator.                                  *)
(*                                                                         *)
(* The Express server (webhook router with the in-memory pendingAlerts Map,*)
(* DocumentGenerator) and the Netlify function webhook are modelled as a   *)
(* state machine whose steps are the synchronous stretches of each handler *)
(* between two awaits on storage I/O.  A behaviour runs one of the two     *)
(* deployments, chosen in the initial state.                               *)
(*                                                                         *)
(* JavaScript strings are modelled as sequences of words (tokens).  The    *)
(* substring tests of the code (String.includes, startsWith) are decided   *)
(* per word by the table Has, which lists the patterns of the code that a  *)
(* word contains; no pattern of the code spans two words of the alphabet.  *)
(***************************************************************************)
EXTENDS Integers, Naturals, Sequences, FiniteSets, TLC

\* ------------------------------------------------------------------------
\* JavaScript values
\* ------------------------------------------------------------------------

\* undefined / null (a missing field); a one-word sentinel so that it compares
\* with strings
Undef == <<"<undefined>">>

\* a truthy value that is not a string (a number, an object)
NotAString == <<"<object>">>

\* the empty string ''
Empty == << >>

\* JS truthiness of a field value: undefined, null and '' are falsy
Truthy(v) == v # Undef /\ v # Empty

\* typeof v === 'string'
IsString(v) == v # Undef /\ v # NotAString

\* a property read: a missing property is undefined
Field(obj, name) == IF name \in DOMAIN obj THEN obj[name] ELSE Undef

\* a || b
Or(a, b) == IF Truthy(a) THEN a ELSE b

\* String.prototype.toLowerCase, word by word
LowerWord(w) ==
  CASE w = "ERROR" -> "error"
    [] w = "Critical" -> "critical"
    [] w = "Warning" -> "warning"
    [] w = "INFO" -> "info"
    [] w = "Anomaly Detected" -> "anomaly detected"
    [] w = "Normalized" -> "normalized"
    [] w = "Recovery" -> "recovery"
    [] w = "[Triggered]" -> "[triggered]"
    [] w = "[Recovery]" -> "[recovery]"
    [] w = "P1" -> "p1"
    [] w = "CPU" -> "cpu"
    [] OTHER -> w

toLowerCase(s) == [i \in 1..Len(s) |-> LowerWord(s[i])]

\* the patterns tested by the code that occur inside a word (case-sensitive)
Has(w) ==
  CASE w = "[Triggered]" -> {"[Triggered]"}
    [] w = "[Recovery]" -> {"[Recovery]", "Recovery"}
    [] w = "Anomaly Detected" -> {"Anomaly Detected"}
    [] w = "anomaly detected" -> {"anomaly"}
    [] w = "Normalized" -> {"Normalized"}
    [] w = "Recovery" -> {"Recovery"}
    [] w = "anomaly" -> {"anomaly"}
    [] w = "critical" -> {"critical"}
    [] w = "high" -> {"high"}
    [] w = "error" -> {"error"}
    [] w = "warning" -> {"warning", "warn"}
    [] w = "warn" -> {"warn"}
    [] w = "medium" -> {"medium"}
    [] w = "info" -> {"info"}
    [] w = "low" -> {"low"}
    [] w = "slow" -> {"low"}
    [] OTHER -> {}

\* String.prototype.includes(pattern)
includes(s, pattern) == \E i \in 1..Len(s) : pattern \in Has(s[i])

\* ------------------------------------------------------------------------
\* DocumentGenerator.determinePriority
\* ------------------------------------------------------------------------

\* determinePriority without the fallback of line 235 to alert_type
determinePriority_priorityOnly(alertData) ==
  LET priority == Field(alertData, "priority")
      p == toLowerCase(priority)
      alertType == toLowerCase(Or(Field(alertData, "alert_type"), Empty))
  IN  IF IsString(priority)
         /\ (includes(p, "critical") \/ includes(p, "high") \/ includes(p, "error"))
      THEN "high"
      ELSE IF IsString(priority)
              /\ (includes(p, "warning") \/ includes(p, "medium") \/ includes(p, "warn"))
      THEN "medium"
      ELSE IF IsString(priority) /\ (includes(p, "info") \/ includes(p, "low"))
      THEN "low"
      ELSE IF includes(alertType, "error") \/ includes(alertType, "critical")
      THEN "high"
      ELSE "medium"

determinePriority(alertData) ==
  LET priority == Or(Field(alertData, "priority"), Field(alertData, "alert_type"))
      p == toLowerCase(priority)
      alertType == toLowerCase(Or(Field(alertData, "alert_type"), Empty))
  IN  IF IsString(priority)
         /\ (includes(p, "critical") \/ includes(p, "high") \/ includes(p, "error"))
      THEN "high"
      ELSE IF IsString(priority)
              /\ (includes(p, "warning") \/ includes(p, "medium") \/ includes(p, "warn"))
      THEN "medium"
      ELSE IF IsString(priority) /\ (includes(p, "info") \/ includes(p, "low"))
      THEN "low"
      ELSE IF includes(alertType, "error") \/ includes(alertType, "critical")
      THEN "high"
      ELSE IF includes(alertType, "warning") \/ includes(alertType, "anomaly")
      THEN "medium"
      ELSE "medium"

\* ------------------------------------------------------------------------
\* Webhook payloads and their normalisation (router.post('/datadog'))
\* ------------------------------------------------------------------------

\* the words of the first line: textPayload.split('\n')[0]
RECURSIVE firstLine(_)
firstLine(s) ==
  IF s = << >> \/ Head(s) = "\n" THEN << >> ELSE <<Head(s)>> \o firstLine(Tail(s))

\* String.prototype.replace(word, ''): removes the first occurrence only
RECURSIVE replaceFirst(_, _)
replaceFirst(s, w) ==
  IF s = << >> THEN << >>
  ELSE IF Head(s) = w THEN Tail(s)
  ELSE <<Head(s)>> \o replaceFirst(Tail(s), w)

\* lines 46-47 and 54: the alert type of a text payload
textAlertType(textPayload) ==
  LET isAlert == includes(textPayload, "[Triggered]")
                   \/ includes(textPayload, "Anomaly Detected")
      isRecovery == includes(textPayload, "Normalized")
                      \/ includes(textPayload, "Recovery")
  IN  IF isAlert THEN <<"error">> ELSE IF isRecovery THEN <<"recovery">> ELSE <<"info">>

\* lines 43-60: a string body
normalizeText(textPayload, timestamp) ==
  LET titleLine == Or(firstLine(textPayload), <<"Datadog Alert">>)
  IN  [ alert_type |-> textAlertType(textPayload),
        title |-> replaceFirst(replaceFirst(titleLine, "[Triggered]"), "[Recovery]"),
        message |-> textPayload,
        id |-> Undef,
        org |-> Undef,
        priority |-> IF includes(toLowerCase(textPayload), "anomaly")
                     THEN <<"high">> ELSE <<"medium">>,
        timestamp |-> timestamp,
        source |-> "datadog_text" ]

\* lines 61-77: an object body
normalizeJson(payload, timestamp) ==
  [ alert_type |-> Or(Or(Field(payload, "event_type"), Field(payload, "alert_type")), <<"info">>),
    title |-> Or(Or(Field(payload, "title"), Field(payload, "event_title")), <<"Datadog Alert">>),
    message |-> Or(Or(Field(payload, "body"), Field(payload, "message")), <<"<json>">>),
    id |-> Field(payload, "id"),
    org |-> Field(payload, "org"),
    priority |-> <<"medium">>,
    timestamp |-> timestamp,
    source |-> "datadog_json",
    originalPayload |-> payload ]

\* lines 85-88
ensureTitle(alert) ==
  IF ~Truthy(alert.title) /\ ~Truthy(alert.message)
  THEN [alert EXCEPT !.title = <<"Datadog Alert">>]
  ELSE alert

\* lines 43-88: the body is a string, an object, or neither (rejected)
parseBody(body, timestamp) ==
  IF body.type = "text"
  THEN [rejected |-> FALSE, alert |-> ensureTitle(normalizeText(body.text, timestamp))]
  ELSE IF body.type = "json"
  THEN [rejected |-> FALSE, alert |-> ensureTitle(normalizeJson(body.json, timestamp))]
  ELSE [rejected |-> TRUE]

\* 1000 * 60 * 5: the dedup window in milliseconds
WindowMs == 300000

\* generateAlertHash without line 21 (no time window hashed)
generateAlertHash_noWindow(alert, dateNow) ==
  [ alert_type |-> Field(alert, "alert_type"),
    title |-> Or(Or(Field(alert, "title"), Field(alert, "event_title")), <<"untitled">>),
    timeWindow |-> 0,
    org |-> IF Truthy(Field(alert, "org")) THEN alert.org ELSE Undef,
    id |-> IF Truthy(Field(alert, "id")) THEN alert.id ELSE Undef ]

\* generateAlertHash without line 25 (org never hashed)
generateAlertHash_noOrg(alert, dateNow) ==
  [ alert_type |-> Field(alert, "alert_type"),
    title |-> Or(Or(Field(alert, "title"), Field(alert, "event_title")), <<"untitled">>),
    timeWindow |-> dateNow \div WindowMs,
    org |-> Undef,
    id |-> IF Truthy(Field(alert, "id")) THEN alert.id ELSE Undef ]

\* generateAlertHash: the md5 digest is modelled by the hashed data itself
\* (equal digests iff equal hashData, collisions aside)
generateAlertHash(alert, dateNow) ==
  [ alert_type |-> Field(alert, "alert_type"),
    title |-> Or(Or(Field(alert, "title"), Field(alert, "event_title")), <<"untitled">>),
    timeWindow |-> dateNow \div WindowMs,
    org |-> IF Truthy(Field(alert, "org")) THEN alert.org ELSE Undef,
    id |-> IF Truthy(Field(alert, "id")) THEN alert.id ELSE Undef ]

\* ------------------------------------------------------------------------
\* DocumentGenerator: context, compilation, rendering
\* ------------------------------------------------------------------------

\* prepareTemplateContext throws a TypeError on a null or undefined alert
\* (alertData.id of undefined)
contextThrows(alertData) == "undefined" \in DOMAIN alertData

\* undefined passed where an alert object is expected
NoAlert == [undefined |-> TRUE]

\* prepareTemplateContext, the groups read by the templates of the model
prepareTemplateContext(alertData) ==
  [ alert |-> [ id |-> Or(Field(alertData, "id"), <<"unknown">>),
                type |-> Or(Field(alertData, "alert_type"), <<"unknown">>),
                title |-> Or(Field(alertData, "title"), <<"Untitled Alert">>),
                message |-> Or(Or(Field(alertData, "body"), Field(alertData, "message")), Empty),
                priority |-> <<determinePriority(alertData)>> ],
    raw |-> alertData ]

\* A tag is the sequence of the pieces its text has between colons
\* ("service:api:v2" is <<"service", "api", "v2">>); a tag that is not a
\* string is NotAString.  The tags field is [isArray |-> TRUE, items |-> the
\* tags] or, for anything that is not an array, [isArray |-> FALSE].

\* tag.startsWith(`${key}:`) on a string tag
tagStartsWith(tag, key) == IsString(tag) /\ Len(tag) >= 2 /\ tag[1] = key

\* extractTag, lines 220-231: tag.split(':')[1] of the first matching tag
extractTag(tags, key) ==
  IF ~tags.isArray THEN Empty
  ELSE LET hits == {i \in 1..Len(tags.items) : tagStartsWith(tags.items[i], key)}
           first == CHOOSE i \in hits : \A j \in hits : i <= j
       IN  IF hits = {} THEN Empty ELSE <<tags.items[first][2]>>

\* prepareTemplateContext lines 190-198: the host fields taken from the tags
hostContext(alertData) ==
  [ environment |-> Or(Or(extractTag(alertData.tags, "env"),
                          extractTag(alertData.tags, "environment")), Empty),
    service |-> Or(extractTag(alertData.tags, "service"), Empty),
    team |-> Or(extractTag(alertData.tags, "team"), Empty),
    region |-> Or(extractTag(alertData.tags, "region"), Empty) ]

\* Handlebars.compile(content)(context) throws on a body that is not a string
\* and on a body with an unclosed block
compileThrows(content) ==
  ~IsString(content) \/ \E i \in 1..Len(content) : content[i] = "{{#if"

\* the text a template word renders to
renderWord(w, context) ==
  CASE w = "{{alert.title}}" -> context.alert.title
    [] w = "{{alert.type}}" -> context.alert.type
    [] w = "{{alert.priority}}" -> context.alert.priority
    [] OTHER -> <<w>>

\* compiledTemplate(context)
RECURSIVE render(_, _)
render(content, context) ==
  IF content = << >> THEN << >>
  ELSE renderWord(Head(content), context) \o render(Tail(content), context)

\* generateDocumentTitle
generateDocumentTitle(alertData, dateNow) ==
  Or(Or(Field(alertData, "title"), Field(alertData, "message")), <<"Alert Documentation">>)
    \o <<"-", ToString(dateNow)>>

\* generateDocument, lines 109-123: the document object
newDocument(documentId, alertData, templateId, template, dateNow) ==
  [ id |-> documentId,
    title |-> generateDocumentTitle(alertData, dateNow),
    content |-> render(template.content, prepareTemplateContext(alertData)),
    alertType |-> Or(Field(alertData, "alert_type"), <<"unknown">>),
    priority |-> determinePriority(alertData),
    status |-> "generated",
    templateId |-> templateId,
    templateName |-> template.name,
    originalAlert |-> alertData,
    createdAt |-> dateNow,
    updatedAt |-> dateNow ]

\* previewTemplate without its catch block turning the error into a result
previewTemplate_uncaught(templateContent, alertData) ==
  IF contextThrows(alertData) \/ compileThrows(templateContent)
  THEN [ success |-> TRUE, error |-> "", content |-> Undef ]
  ELSE [ success |-> TRUE,
         error |-> "",
         content |-> render(templateContent, prepareTemplateContext(alertData)) ]

\* previewTemplate: the returned object
previewTemplate(templateContent, alertData) ==
  IF contextThrows(alertData) \/ compileThrows(templateContent)
  THEN [ success |-> FALSE,
         error |-> IF contextThrows(alertData) THEN "TypeError" ELSE "CompileError",
         content |-> Undef ]
  ELSE [ success |-> TRUE,
         error |-> "",
         content |-> render(templateContent, prepareTemplateContext(alertData)) ]

\* ------------------------------------------------------------------------
\* State of the server
\* ------------------------------------------------------------------------

VARIABLES
  deployment,     \* which webhook runs: the Express router or the Netlify function
  now,            \* Date.now(), in milliseconds
  nextUuid,       \* the next value uuidv4() returns (never repeats)
  pendingAlerts,  \* the Map pendingAlerts: its keys in insertion order
  alertObjs,      \* the alertData objects the Map and the handlers refer to
  alertFiles,     \* data/alerts/<id>.json
  templateFiles,  \* data/templates/<id>.json
  documentFiles,  \* data/documents/<id>.json
  reqs,           \* the requests received so far: arguments, position, response
  ioFailures      \* number of storage operations that have failed

vars == <<deployment, now, nextUuid, pendingAlerts, alertObjs, alertFiles, templateFiles,
          documentFiles, reqs, ioFailures>>

\* bounds of the model: requests of each kind, clock ticks, failed writes
MaxIngest == 2
MaxProcess == 2
MaxTicks == 1
MaxIoFailures == 2

\* absent id, absent timestamp, an id no entity has
NoId == 0
NoTime == 0 - 1
UnknownId == 0 - 2

\* the clock starts one millisecond before a dedup window ends
StartNow == WindowMs - 1

EmptyMap == [i \in {} |-> Undef]

Put(f, k, v) == [i \in DOMAIN f \cup {k} |-> IF i = k THEN v ELSE f[i]]

Remove(f, k) == [i \in DOMAIN f \ {k} |-> f[i]]

SeqRemove(s, x) == SelectSeq(s, LAMBDA y : y # x)

InSeq(s, x) == \E i \in 1..Len(s) : s[i] = x

Min(S) == CHOOSE x \in S : \A y \in S : x <= y

\* the response of a handler (status 0: not answered yet)
Resp(status, error, alertId, duplicate, documentId) ==
  [ status |-> status, error |-> error, alertId |-> alertId,
    duplicate |-> duplicate, documentId |-> documentId ]

NoResp == Resp(0, "", NoId, FALSE, NoId)

\* the template a first operator has created (POST /api/templates)
SeedTemplate ==
  [ id |-> 1, name |-> <<"Incident">>, description |-> Empty,
    category |-> <<"general">>,
    content |-> <<"Alert", "{{alert.title}}", "{{alert.priority}}">>,
    createdAt |-> StartNow, updatedAt |-> StartNow,
    usageCount |-> 0, lastUsed |-> NoTime ]

Deployments == {"express", "netlify"}

InitOf(d) ==
  /\ deployment = d
  /\ now = StartNow
  /\ nextUuid = 2
  /\ pendingAlerts = << >>
  /\ alertObjs = EmptyMap
  /\ alertFiles = EmptyMap
  /\ templateFiles = Put(EmptyMap, 1, SeedTemplate)
  /\ documentFiles = EmptyMap
  /\ reqs = << >>
  /\ ioFailures = 0

Init == \E d \in Deployments : InitOf(d)

\* no handler is between two awaits
Idle == \A i \in 1..Len(reqs) : reqs[i].pc = "done"

\* the number of requests of a kind received so far
Count(kind) == Cardinality({i \in 1..Len(reqs) : reqs[i].kind = kind})

\* a new request arrives; conc = FALSE is the single-request-at-a-time model
CanStart(kind, max, conc) == Count(kind) < max /\ (conc \/ Idle)

\* an awaited storage write either succeeds or throws
IoOutcome(ok) == ok \/ ioFailures < MaxIoFailures

IoCount(ok) == ioFailures' = IF ok THEN ioFailures ELSE ioFailures + 1

\* the clock advances (between two requests)
Tick ==
  /\ Idle
  /\ now < StartNow + MaxTicks
  /\ now' = now + 1
  /\ UNCHANGED <<deployment, nextUuid, pendingAlerts, alertObjs, alertFiles, templateFiles,
                 documentFiles, reqs, ioFailures>>

\* ------------------------------------------------------------------------
\* POST /api/webhook/datadog
\* ------------------------------------------------------------------------

\* the lookup of line 94 without its test: the first pending alert matches
findExisting_first(alertHash) ==
  IF Len(pendingAlerts) = 0 THEN 0 ELSE 1

\* line 94: Array.from(pendingAlerts.values()).find(a => a.alertHash === alertHash)
\* (the position of the first match in insertion order, 0 when there is none)
findExisting(alertHash) ==
  LET hits == {i \in 1..Len(pendingAlerts) :
                 alertObjs[pendingAlerts[i]].alertHash = alertHash}
  IN  IF hits = {} THEN 0 ELSE Min(hits)

\* lines 109-117
newAlertData(alertId, timestamp, alertHash, alert) ==
  [ id |-> alertId, timestamp |-> timestamp, alertHash |-> alertHash,
    originalPayload |-> alert, status |-> "pending_template_selection",
    processedAt |-> NoTime, documentId |-> NoId, templateId |-> NoId ]

\* lines 33-117: the handler up to its first await.  The body is rejected, or
\* normalised, hashed and looked up among the pending alerts.
IngestStart(body, conc) ==
  /\ deployment = "express"
  /\ CanStart("ingest", MaxIngest, conc)
  /\ LET base == [kind |-> "ingest", body |-> body, at |-> now]
         parsed == parseBody(body, now)
         alert == parsed.alert
         alertHash == generateAlertHash(alert, now)
         existing == findExisting(alertHash)
     IN  IF parsed.rejected
         THEN /\ reqs' = Append(reqs, base @@
                   [pc |-> "done",
                    resp |-> Resp(400, "Invalid webhook payload", NoId, FALSE, NoId)])
              /\ UNCHANGED nextUuid
         ELSE IF existing # 0
         THEN /\ reqs' = Append(reqs, base @@
                   [pc |-> "done", alert |-> alert, alertHash |-> alertHash,
                    ref |-> pendingAlerts[existing],
                    resp |-> Resp(200, "", pendingAlerts[existing], TRUE, NoId)])
              /\ UNCHANGED nextUuid
         ELSE /\ reqs' = Append(reqs, base @@
                   [pc |-> "write", alert |-> alert, alertHash |-> alertHash,
                    ref |-> nextUuid,
                    alertData |-> newAlertData(nextUuid, now, alertHash, alert),
                    resp |-> NoResp])
              /\ nextUuid' = nextUuid + 1
  /\ UNCHANGED <<deployment, now, pendingAlerts, alertObjs, alertFiles, templateFiles,
                 documentFiles, ioFailures>>

\* lines 119-143: the alert file is written, then the alert enters the Map and
\* the request is answered; a failed write is answered 500
IngestWrite(i, ok) ==
  /\ i \in 1..Len(reqs)
  /\ reqs[i].kind = "ingest" /\ reqs[i].pc = "write"
  /\ IoOutcome(ok) /\ IoCount(ok)
  /\ LET alertData == reqs[i].alertData
     IN  IF ok
         THEN /\ alertFiles' = Put(alertFiles, alertData.id, alertData)
              /\ alertObjs' = Put(alertObjs, alertData.id, alertData)
              /\ pendingAlerts' = Append(pendingAlerts, alertData.id)
              /\ reqs' = [reqs EXCEPT ![i].pc = "done",
                            ![i].resp = Resp(200, "", alertData.id, FALSE, NoId)]
         ELSE /\ reqs' = [reqs EXCEPT ![i].pc = "done",
                            ![i].resp = Resp(500, "StorageError", NoId, FALSE, NoId)]
              /\ UNCHANGED <<alertFiles, alertObjs, pendingAlerts>>
  /\ UNCHANGED <<deployment, now, nextUuid, templateFiles, documentFiles>>

\* GET /api/webhook/pending: the set of ids the listing returns
pendingListing ==
  {id \in DOMAIN alertObjs :
     InSeq(pendingAlerts, id) /\ alertObjs[id].status = "pending_template_selection"}

\* ------------------------------------------------------------------------
\* POST /api/webhook/process/:alertId   (with DocumentGenerator.generateDocument)
\* ------------------------------------------------------------------------

\* lines 175-196: validation and the lookup in the Map
ProcessStart(alertId, templateId, conc) ==
  /\ deployment = "express"
  /\ CanStart("process", MaxProcess, conc)
  /\ LET base == [kind |-> "process", alertId |-> alertId, templateId |-> templateId,
                  at |-> now]
     IN  IF templateId = NoId
         THEN reqs' = Append(reqs, base @@
                [pc |-> "done",
                 resp |-> Resp(400, "Template ID is required", NoId, FALSE, NoId)])
         ELSE IF ~InSeq(pendingAlerts, alertId)
         THEN reqs' = Append(reqs, base @@
                [pc |-> "done",
                 resp |-> Resp(404, "Alert not found", NoId, FALSE, NoId)])
         ELSE reqs' = Append(reqs, base @@
                [pc |-> "load", ref |-> alertId,
                 payload |-> alertObjs[alertId].originalPayload,
                 resp |-> NoResp])
  /\ UNCHANGED <<deployment, now, nextUuid, pendingAlerts, alertObjs, alertFiles, templateFiles,
                 documentFiles, ioFailures>>

\* the null loadTemplate returns
NoTemplate == [id |-> NoId]

\* loadTemplate falling back to the first template instead of null
loadTemplate_fallback(templateId) ==
  IF templateId \in DOMAIN templateFiles THEN templateFiles[templateId] ELSE templateFiles[1]

\* loadTemplate: the template file, or null when it does not exist
loadTemplate(templateId) ==
  IF templateId \in DOMAIN templateFiles THEN templateFiles[templateId] ELSE NoTemplate

\* generateDocument lines 96-123: load the template, fail when it is absent or
\* does not compile, else build the document.  The error thrown is rethrown to
\* the catch of the process handler (lines 225-231), which answers 500.
ProcessLoad(i) ==
  /\ i \in 1..Len(reqs)
  /\ reqs[i].kind = "process" /\ reqs[i].pc = "load"
  /\ LET r == reqs[i]
         template == loadTemplate(r.templateId)
     IN  IF template.id = NoId
         THEN /\ reqs' = [reqs EXCEPT ![i].pc = "done",
                   ![i].resp = Resp(500, "Template not found", NoId, FALSE, NoId)]
              /\ UNCHANGED nextUuid
         ELSE IF compileThrows(template.content)
         THEN /\ reqs' = [reqs EXCEPT ![i].pc = "done",
                   ![i].resp = Resp(500, "CompileError", NoId, FALSE, NoId)]
              /\ UNCHANGED nextUuid
         ELSE /\ reqs' = [reqs EXCEPT ![i] =
                   [pc |-> "save",
                    doc |-> newDocument(nextUuid, r.payload, r.templateId, template, now)]
                   @@ r]
              /\ nextUuid' = nextUuid + 1
  /\ UNCHANGED <<deployment, now, pendingAlerts, alertObjs, alertFiles, templateFiles,
                 documentFiles, ioFailures>>

\* saveDocument: the document file is written, or the write throws
ProcessSave(i, ok) ==
  /\ i \in 1..Len(reqs)
  /\ reqs[i].kind = "process" /\ reqs[i].pc = "save"
  /\ IoOutcome(ok) /\ IoCount(ok)
  /\ IF ok
     THEN /\ documentFiles' = Put(documentFiles, reqs[i].doc.id, reqs[i].doc)
          /\ reqs' = [reqs EXCEPT ![i].pc = "usageRead"]
     ELSE /\ reqs' = [reqs EXCEPT ![i].pc = "done",
               ![i].resp = Resp(500, "StorageError", NoId, FALSE, NoId)]
          /\ UNCHANGED documentFiles
  /\ UNCHANGED <<deployment, now, nextUuid, pendingAlerts, alertObjs, alertFiles, templateFiles>>

\* process lines 202-206: the alert object, shared with the Map, is marked
markProcessed(alertData, documentId, templateId, dateNow) ==
  [alertData EXCEPT !.status = "processed", !.processedAt = dateNow,
                    !.documentId = documentId, !.templateId = templateId]

\* the continuation of the process handler once generateDocument has returned:
\* the alert object is marked and serialised for the write of line 210
ProcessMark(i, r) ==
  LET marked == markProcessed(alertObjs[r.alertId], r.doc.id, r.templateId, now)
  IN  /\ alertObjs' = [alertObjs EXCEPT ![r.alertId] = marked]
      /\ reqs' = [reqs EXCEPT ![i] = [pc |-> "alertWrite", snapshot |-> marked] @@ r]

\* updateTemplateUsage lines 284-289: the template is read again and its copy
\* is incremented; when the file is gone the update is skipped
ProcessUsageRead(i) ==
  /\ i \in 1..Len(reqs)
  /\ reqs[i].kind = "process" /\ reqs[i].pc = "usageRead"
  /\ LET r == reqs[i]
         template == templateFiles[r.templateId]
     IN  IF r.templateId \in DOMAIN templateFiles
         THEN /\ reqs' = [reqs EXCEPT ![i] =
                   [pc |-> "usageWrite",
                    usage |-> [template EXCEPT !.usageCount = template.usageCount + 1,
                                               !.lastUsed = now]]
                   @@ r]
              /\ UNCHANGED alertObjs
         ELSE ProcessMark(i, r)
  /\ UNCHANGED <<deployment, now, nextUuid, pendingAlerts, alertFiles, templateFiles,
                 documentFiles, ioFailures>>

\* updateTemplateUsage lines 291-296: the incremented copy is written; a failed
\* write is logged and swallowed.  generateDocument then returns.
ProcessUsageWrite(i, ok) ==
  /\ i \in 1..Len(reqs)
  /\ reqs[i].kind = "process" /\ reqs[i].pc = "usageWrite"
  /\ IoOutcome(ok) /\ IoCount(ok)
  /\ templateFiles' = IF ok THEN Put(templateFiles, reqs[i].templateId, reqs[i].usage)
                      ELSE templateFiles
  /\ ProcessMark(i, reqs[i])
  /\ UNCHANGED <<deployment, now, nextUuid, pendingAlerts, alertFiles, documentFiles>>

\* line 213: pendingAlerts.delete(alertId)
pendingDelete(alertId) == SeqRemove(pendingAlerts, alertId)

\* process lines 208-231: the marked alert is written, removed from the Map,
\* and the request is answered; a failed write is answered 500
ProcessAlertWrite(i, ok) ==
  /\ i \in 1..Len(reqs)
  /\ reqs[i].kind = "process" /\ reqs[i].pc = "alertWrite"
  /\ IoOutcome(ok) /\ IoCount(ok)
  /\ LET r == reqs[i]
     IN  IF ok
         THEN /\ alertFiles' = Put(alertFiles, r.alertId, r.snapshot)
              /\ pendingAlerts' = pendingDelete(r.alertId)
              /\ reqs' = [reqs EXCEPT ![i].pc = "done",
                   ![i].resp = Resp(200, "", r.alertId, FALSE, r.doc.id)]
         ELSE /\ reqs' = [reqs EXCEPT ![i].pc = "done",
                   ![i].resp = Resp(500, "StorageError", NoId, FALSE, NoId)]
              /\ UNCHANGED <<alertFiles, pendingAlerts>>
  /\ UNCHANGED <<deployment, now, nextUuid, alertObjs, templateFiles, documentFiles>>

\* ------------------------------------------------------------------------
\* The Netlify function webhook (part_001, lines 152-397).  Its pendingAlerts
\* is an array of alert objects; the model names each object by a reference
\* drawn from the counter nextUuid and keeps the objects in alertObjs and the
\* references, in array order, in pendingAlerts.  alertFiles holds the
\* entries of /tmp/data/alerts.json under the same references.  One
\* invocation runs at a time.
\* ------------------------------------------------------------------------

\* string bodies that JSON.parse accepts although they are no object
JsonTextWords == {"42"}

IsJsonText(text) == Len(text) = 1 /\ text[1] \in JsonTextWords

\* netlifyParseBody without the validation of lines 222-231
netlifyParseBody_unvalidated(body, timestamp) ==
  IF body.type = "json"
  THEN [rejected |-> FALSE,
        alert |-> [timestamp |-> timestamp, source |-> "datadog_json"] @@ body.json]
  ELSE IF body.type = "text"
  THEN IF IsJsonText(body.text)
       THEN [rejected |-> TRUE]
       ELSE [rejected |-> FALSE, alert |-> normalizeText(body.text, timestamp)]
  ELSE [rejected |-> TRUE]

\* lines 217-269: JSON.parse first (400 without alert_type), the text format
\* only when JSON.parse throws
netlifyParseBody(body, timestamp) ==
  IF body.type = "json"
  THEN IF ~Truthy(Field(body.json, "alert_type"))
       THEN [rejected |-> TRUE]
       ELSE [rejected |-> FALSE,
             alert |-> [timestamp |-> timestamp, source |-> "datadog_json"] @@ body.json]
  ELSE IF body.type = "text"
  THEN IF IsJsonText(body.text)
       THEN [rejected |-> TRUE]
       ELSE [rejected |-> FALSE, alert |-> normalizeText(body.text, timestamp)]
  ELSE [rejected |-> TRUE]

\* the ids of the Netlify function are strings
NetlifyNoId == Empty

NetlifyUnknownId == <<"unknown">>

\* lines 290-296: { id: Date.now().toString(), alertHash, ...alert,
\* received_at, status: 'pending' }; an id of the payload replaces the id
finalAlert(alert, alertHash, dateNow) ==
  [received_at |-> dateNow, status |-> "pending"]
    @@ [id |-> IF Field(alert, "id") # Undef THEN alert.id ELSE <<ToString(dateNow)>>]
    @@ alert
    @@ [alertHash |-> alertHash]

\* lines 215-298: the handler up to its first await; a new alert is pushed
\* to the array before the file is touched
NetlifyIngestStart(body) ==
  /\ deployment = "netlify"
  /\ CanStart("ingest", MaxIngest, FALSE)
  /\ LET base == [kind |-> "ingest", body |-> body, at |-> now]
         parsed == netlifyParseBody(body, now)
         alert == parsed.alert
         alertHash == generateAlertHash(alert, now)
         existing == findExisting(alertHash)
         created == finalAlert(alert, alertHash, now)
     IN  IF parsed.rejected
         THEN /\ reqs' = Append(reqs, base @@
                   [pc |-> "done",
                    resp |-> Resp(400, "Invalid webhook payload", NetlifyNoId, FALSE, NoId)])
              /\ UNCHANGED <<nextUuid, pendingAlerts, alertObjs>>
         ELSE IF existing # 0
         THEN /\ reqs' = Append(reqs, base @@
                   [pc |-> "done", alert |-> alert, alertHash |-> alertHash,
                    ref |-> pendingAlerts[existing],
                    resp |-> Resp(200, "", alertObjs[pendingAlerts[existing]].id, TRUE, NoId)])
              /\ UNCHANGED <<nextUuid, pendingAlerts, alertObjs>>
         ELSE /\ reqs' = Append(reqs, base @@
                   [pc |-> "file", alert |-> alert, alertHash |-> alertHash,
                    ref |-> nextUuid, resp |-> NoResp])
              /\ alertObjs' = Put(alertObjs, nextUuid, created)
              /\ pendingAlerts' = Append(pendingAlerts, nextUuid)
              /\ nextUuid' = nextUuid + 1
  /\ UNCHANGED <<deployment, now, alertFiles, templateFiles, documentFiles, ioFailures>>

\* lines 300-326 and 385-396: alerts.json is read (an unreadable file counts
\* as an empty array), the alert is appended and the file is written; a
\* failed write is answered 500
NetlifyIngestFile(i, readOk, ok) ==
  /\ i \in 1..Len(reqs)
  /\ reqs[i].kind = "ingest" /\ reqs[i].pc = "file"
  /\ readOk \/ alertFiles # EmptyMap
  /\ IoOutcome(readOk /\ ok) /\ IoCount(readOk /\ ok)
  /\ LET ref == reqs[i].ref
         existingAlerts == IF readOk THEN alertFiles ELSE EmptyMap
     IN  IF ok
         THEN /\ alertFiles' = Put(existingAlerts, ref, alertObjs[ref])
              /\ reqs' = [reqs EXCEPT ![i].pc = "done",
                            ![i].resp = Resp(200, "", alertObjs[ref].id, FALSE, NoId)]
         ELSE /\ reqs' = [reqs EXCEPT ![i].pc = "done",
                            ![i].resp = Resp(500, "StorageError", NetlifyNoId, FALSE, NoId)]
              /\ UNCHANGED alertFiles
  /\ UNCHANGED <<deployment, now, nextUuid, pendingAlerts, alertObjs, templateFiles,
                 documentFiles>>

\* line 345: pendingAlerts.findIndex(alert => alert.id === alertId), 0 for -1
findIndex(alertId) ==
  LET hits == {i \in 1..Len(pendingAlerts) : alertObjs[pendingAlerts[i]].id = alertId}
  IN  IF hits = {} THEN 0 ELSE Min(hits)

\* lines 341-374: the alert found by id is marked and spliced out of the
\* array; no document is generated here
NetlifyProcess(alertId, templateId) ==
  /\ deployment = "netlify"
  /\ CanStart("process", MaxProcess, FALSE)
  /\ LET base == [kind |-> "process", alertId |-> alertId, templateId |-> templateId,
                  at |-> now, pc |-> "done"]
         alertIndex == findIndex(alertId)
         ref == pendingAlerts[alertIndex]
     IN  IF alertIndex = 0
         THEN /\ reqs' = Append(reqs, base @@
                   [resp |-> Resp(404, "Alert not found", NetlifyNoId, FALSE, NoId)])
              /\ UNCHANGED <<pendingAlerts, alertObjs>>
         ELSE /\ alertObjs' = [alertObjs EXCEPT ![ref] =
                   [status |-> "processed", templateId |-> templateId,
                    processed_at |-> now] @@ alertObjs[ref]]
              /\ pendingAlerts' = [k \in 1..(Len(pendingAlerts) - 1) |->
                   IF k < alertIndex THEN pendingAlerts[k] ELSE pendingAlerts[k + 1]]
              /\ reqs' = Append(reqs, base @@
                   [ref |-> ref, resp |-> Resp(200, "", alertId, FALSE, NoId)])
  /\ UNCHANGED <<deployment, now, nextUuid, alertFiles, templateFiles, documentFiles,
                 ioFailures>>

\* ------------------------------------------------------------------------
\* /api/templates (Express router)
\* ------------------------------------------------------------------------

\* requests of each kind to the template routes
MaxCreate == 2
MaxGet == 1
MaxUpdate == 1
MaxDelete == 2

\* the word a run of whitespace is written as
Blank == " "

\* String.prototype.trim
RECURSIVE trimStart(_)
trimStart(s) ==
  IF s # << >> /\ Head(s) = Blank THEN trimStart(Tail(s)) ELSE s

RECURSIVE trimEnd(_)
trimEnd(s) ==
  IF s # << >> /\ s[Len(s)] = Blank THEN trimEnd(SubSeq(s, 1, Len(s) - 1)) ELSE s

trim(s) == trimEnd(trimStart(s))

\* x?.trim(): undefined stays undefined
optTrim(x) == IF x = Undef THEN Undef ELSE trim(x)

\* lines 208-217: the template object of a create
newTemplate(templateId, input, dateNow) ==
  [ id |-> templateId,
    name |-> trim(input.name),
    description |-> Or(optTrim(Field(input, "description")), Empty),
    category |-> trim(IF Field(input, "category") = Undef THEN <<"general">>
                      ELSE input.category),
    content |-> trim(input.content),
    createdAt |-> dateNow, updatedAt |-> dateNow,
    usageCount |-> 0, lastUsed |-> NoTime ]

\* lines 195-217: validation, then the uuid and the template object
TemplateCreateStart(input, conc) ==
  /\ deployment = "express"
  /\ CanStart("createTemplate", MaxCreate, conc)
  /\ LET base == [kind |-> "createTemplate", input |-> input, at |-> now]
         name == Field(input, "name")
         content == Field(input, "content")
     IN  IF ~Truthy(name) \/ ~Truthy(content)
         THEN /\ reqs' = Append(reqs, base @@
                   [pc |-> "done", templateId |-> NoId,
                    resp |-> Resp(400, "Missing required fields", NoId, FALSE, NoId)])
              /\ UNCHANGED nextUuid
         ELSE IF ~IsString(name) \/ ~IsString(content)
         THEN /\ reqs' = Append(reqs, base @@
                   [pc |-> "done", templateId |-> NoId,
                    resp |-> Resp(500, "TypeError", NoId, FALSE, NoId)])
              /\ nextUuid' = nextUuid + 1
         ELSE /\ reqs' = Append(reqs, base @@
                   [pc |-> "write", templateId |-> nextUuid,
                    template |-> newTemplate(nextUuid, input, now),
                    resp |-> NoResp])
              /\ nextUuid' = nextUuid + 1
  /\ UNCHANGED <<deployment, now, pendingAlerts, alertObjs, alertFiles, templateFiles,
                 documentFiles, ioFailures>>

\* lines 219-243: the template file is written and the request answered 201;
\* a failed write is answered 500
TemplateCreateWrite(i, ok) ==
  /\ i \in 1..Len(reqs)
  /\ reqs[i].kind = "createTemplate" /\ reqs[i].pc = "write"
  /\ IoOutcome(ok) /\ IoCount(ok)
  /\ IF ok
     THEN /\ templateFiles' = Put(templateFiles, reqs[i].templateId, reqs[i].template)
          /\ reqs' = [reqs EXCEPT ![i].pc = "done",
                        ![i].resp = Resp(201, "", NoId, FALSE, NoId)]
     ELSE /\ reqs' = [reqs EXCEPT ![i].pc = "done",
                        ![i].resp = Resp(500, "StorageError", NoId, FALSE, NoId)]
          /\ UNCHANGED templateFiles
  /\ UNCHANGED <<deployment, now, nextUuid, pendingAlerts, alertObjs, alertFiles,
                 documentFiles>>

\* lines 88-114: GET /:templateId answers the template file, or 404
TemplateGet(templateId, conc) ==
  /\ deployment = "express"
  /\ CanStart("getTemplate", MaxGet, conc)
  /\ LET base == [kind |-> "getTemplate", templateId |-> templateId, at |-> now,
                  pc |-> "done"]
     IN  IF templateId \notin DOMAIN templateFiles
         THEN reqs' = Append(reqs, base @@
                [found |-> FALSE,
                 resp |-> Resp(404, "Template not found", NoId, FALSE, NoId)])
         ELSE reqs' = Append(reqs, base @@
                [found |-> TRUE, template |-> templateFiles[templateId],
                 resp |-> Resp(200, "", NoId, FALSE, NoId)])
  /\ UNCHANGED <<deployment, now, nextUuid, pendingAlerts, alertObjs, alertFiles, templateFiles,
                 documentFiles, ioFailures>>

\* lines 247-260: PUT /:templateId, up to the existence test
TemplateUpdateStart(templateId, input, conc) ==
  /\ deployment = "express"
  /\ CanStart("updateTemplate", MaxUpdate, conc)
  /\ LET base == [kind |-> "updateTemplate", templateId |-> templateId, input |-> input,
                  at |-> now]
     IN  IF templateId \notin DOMAIN templateFiles
         THEN reqs' = Append(reqs, base @@
                [pc |-> "done",
                 resp |-> Resp(404, "Template not found", NoId, FALSE, NoId)])
         ELSE reqs' = Append(reqs, base @@ [pc |-> "read", resp |-> NoResp])
  /\ UNCHANGED <<deployment, now, nextUuid, pendingAlerts, alertObjs, alertFiles, templateFiles,
                 documentFiles, ioFailures>>

\* lines 266-273: the updated copy of a template
updatedTemplate(existingTemplate, input, dateNow) ==
  [existingTemplate EXCEPT
     !.name = Or(optTrim(Field(input, "name")), existingTemplate.name),
     !.description = Or(optTrim(Field(input, "description")), existingTemplate.description),
     !.category = Or(optTrim(Field(input, "category")), existingTemplate.category),
     !.content = Or(optTrim(Field(input, "content")), existingTemplate.content),
     !.updatedAt = dateNow]

\* lines 262-273: the template file is read and the updated copy built; a
\* file removed in the meantime makes readJson throw
TemplateUpdateRead(i) ==
  /\ i \in 1..Len(reqs)
  /\ reqs[i].kind = "updateTemplate" /\ reqs[i].pc = "read"
  /\ LET r == reqs[i]
     IN  IF r.templateId \in DOMAIN templateFiles
         THEN reqs' = [reqs EXCEPT ![i] =
                [pc |-> "write",
                 template |-> updatedTemplate(templateFiles[r.templateId], r.input, now)]
                @@ r]
         ELSE reqs' = [reqs EXCEPT ![i].pc = "done",
                         ![i].resp = Resp(500, "StorageError", NoId, FALSE, NoId)]
  /\ UNCHANGED <<deployment, now, nextUuid, pendingAlerts, alertObjs, alertFiles, templateFiles,
                 documentFiles, ioFailures>>

\* lines 275-297: the updated copy is written
TemplateUpdateWrite(i, ok) ==
  /\ i \in 1..Len(reqs)
  /\ reqs[i].kind = "updateTemplate" /\ reqs[i].pc = "write"
  /\ IoOutcome(ok) /\ IoCount(ok)
  /\ IF ok
     THEN /\ templateFiles' = Put(templateFiles, reqs[i].templateId, reqs[i].template)
          /\ reqs' = [reqs EXCEPT ![i].pc = "done",
                        ![i].resp = Resp(200, "", NoId, FALSE, NoId)]
     ELSE /\ reqs' = [reqs EXCEPT ![i].pc = "done",
                        ![i].resp = Resp(500, "StorageError", NoId, FALSE, NoId)]
          /\ UNCHANGED templateFiles
  /\ UNCHANGED <<deployment, now, nextUuid, pendingAlerts, alertObjs, alertFiles,
                 documentFiles>>

\* lines 301-312: DELETE /:templateId, up to the existence test
TemplateDeleteStart(templateId, conc) ==
  /\ deployment = "express"
  /\ CanStart("deleteTemplate", MaxDelete, conc)
  /\ LET base == [kind |-> "deleteTemplate", templateId |-> templateId, at |-> now]
     IN  IF templateId \notin DOMAIN templateFiles
         THEN reqs' = Append(reqs, base @@
                [pc |-> "done",
                 resp |-> Resp(404, "Template not found", NoId, FALSE, NoId)])
         ELSE reqs' = Append(reqs, base @@ [pc |-> "remove", resp |-> NoResp])
  /\ UNCHANGED <<deployment, now, nextUuid, pendingAlerts, alertObjs, alertFiles, templateFiles,
                 documentFiles, ioFailures>>

\* a delete that also removes the documents rendered from the template
TemplateDeleteRemove_cascade(i, ok) ==
  /\ i \in 1..Len(reqs)
  /\ reqs[i].kind = "deleteTemplate" /\ reqs[i].pc = "remove"
  /\ IoOutcome(ok) /\ IoCount(ok)
  /\ IF ok /\ reqs[i].templateId \in DOMAIN templateFiles
     THEN /\ templateFiles' = Remove(templateFiles, reqs[i].templateId)
          /\ documentFiles' =
               [d \in {x \in DOMAIN documentFiles :
                         documentFiles[x].templateId # reqs[i].templateId}
                  |-> documentFiles[d]]
          /\ reqs' = [reqs EXCEPT ![i].pc = "done",
                        ![i].resp = Resp(200, "", NoId, FALSE, NoId)]
     ELSE /\ reqs' = [reqs EXCEPT ![i].pc = "done",
                        ![i].resp = Resp(500, "StorageError", NoId, FALSE, NoId)]
          /\ UNCHANGED <<templateFiles, documentFiles>>
  /\ UNCHANGED <<deployment, now, nextUuid, pendingAlerts, alertObjs, alertFiles>>

\* lines 314-332: the template file is read (for the log) and removed; a file
\* removed in the meantime makes readJson throw
TemplateDeleteRemove(i, ok) ==
  /\ i \in 1..Len(reqs)
  /\ reqs[i].kind = "deleteTemplate" /\ reqs[i].pc = "remove"
  /\ IoOutcome(ok) /\ IoCount(ok)
  /\ IF ok /\ reqs[i].templateId \in DOMAIN templateFiles
     THEN /\ templateFiles' = Remove(templateFiles, reqs[i].templateId)
          /\ reqs' = [reqs EXCEPT ![i].pc = "done",
                        ![i].resp = Resp(200, "", NoId, FALSE, NoId)]
     ELSE /\ reqs' = [reqs EXCEPT ![i].pc = "done",
                        ![i].resp = Resp(500, "StorageError", NoId, FALSE, NoId)]
          /\ UNCHANGED templateFiles
  /\ UNCHANGED <<deployment, now, nextUuid, pendingAlerts, alertObjs, alertFiles,
                 documentFiles>>

\* ------------------------------------------------------------------------
\* Netlify functions templates and generate-document.  templates.json and
\* documents.json are arrays: templateFiles and documentFiles map the
\* positions of their elements, in insertion order, to the elements.
\* ------------------------------------------------------------------------

\* requests to the generate-document function
MaxGenerate == 2

\* Array.prototype.find / findIndex by id: the first element, 0 for none
netlifyFind(files, id) ==
  LET hits == {ref \in DOMAIN files : files[ref].id = id}
  IN  IF hits = {} THEN 0 ELSE Min(hits)

\* readTemplates (templates.js lines 43-50): any failure yields []
readTemplates(readOk) == IF readOk THEN templateFiles ELSE EmptyMap

\* templates.js lines 86-95: the template object of a create
netlifyNewTemplate(input, dateNow) ==
  [ id |-> <<ToString(dateNow)>>,
    name |-> input.name,
    description |-> Or(Field(input, "description"), Empty),
    category |-> Or(Field(input, "category"), <<"General">>),
    content |-> input.content,
    created_at |-> dateNow, updated_at |-> dateNow,
    usage_count |-> 0, last_used |-> NoTime ]

\* templates.js lines 70-110: POST
NetlifyTemplateCreate(input, readOk, ok) ==
  /\ deployment = "netlify"
  /\ CanStart("createTemplate", MaxCreate, FALSE)
  /\ LET base == [kind |-> "createTemplate", input |-> input, at |-> now, pc |-> "done"]
         created == netlifyNewTemplate(input, now)
     IN  IF ~Truthy(Field(input, "name")) \/ ~Truthy(Field(input, "content"))
         THEN /\ reqs' = Append(reqs, base @@
                   [templateId |-> NetlifyNoId,
                    resp |-> Resp(400, "Name and content are required", NetlifyNoId, FALSE,
                                  NoId)])
              /\ UNCHANGED <<templateFiles, nextUuid, ioFailures>>
         ELSE /\ readOk \/ templateFiles # EmptyMap
              /\ IoOutcome(readOk /\ ok) /\ IoCount(readOk /\ ok)
              /\ IF ok
                 THEN /\ templateFiles' = Put(readTemplates(readOk), nextUuid, created)
                      /\ nextUuid' = nextUuid + 1
                      /\ reqs' = Append(reqs, base @@
                           [templateId |-> created.id, template |-> created,
                            resp |-> Resp(201, "", NetlifyNoId, FALSE, NoId)])
                 ELSE /\ reqs' = Append(reqs, base @@
                           [templateId |-> created.id,
                            resp |-> Resp(500, "StorageError", NetlifyNoId, FALSE, NoId)])
                      /\ UNCHANGED <<templateFiles, nextUuid>>
  /\ UNCHANGED <<deployment, now, pendingAlerts, alertObjs, alertFiles, documentFiles>>

\* templates.js lines 59-69: GET answers the whole array
NetlifyTemplateGet(readOk) ==
  /\ deployment = "netlify"
  /\ CanStart("getTemplate", MaxGet, FALSE)
  /\ readOk \/ templateFiles # EmptyMap
  /\ IoOutcome(readOk) /\ IoCount(readOk)
  /\ reqs' = Append(reqs,
       [kind |-> "getTemplate", at |-> now, pc |-> "done",
        templates |-> readTemplates(readOk),
        resp |-> Resp(200, "", NetlifyNoId, FALSE, NoId)])
  /\ UNCHANGED <<deployment, now, nextUuid, pendingAlerts, alertObjs, alertFiles, templateFiles,
                 documentFiles>>

\* templates.js lines 132-139: the updated element
netlifyUpdatedTemplate(existingTemplate, input, dateNow) ==
  [existingTemplate EXCEPT
     !.name = Or(Field(input, "name"), existingTemplate.name),
     !.description = IF Field(input, "description") # Undef THEN input.description
                     ELSE existingTemplate.description,
     !.category = Or(Field(input, "category"), existingTemplate.category),
     !.content = Or(Field(input, "content"), existingTemplate.content),
     !.updated_at = dateNow]

\* templates.js lines 112-152: PUT
NetlifyTemplateUpdate(templateId, input, readOk, ok) ==
  /\ deployment = "netlify"
  /\ CanStart("updateTemplate", MaxUpdate, FALSE)
  /\ readOk \/ templateFiles # EmptyMap
  /\ LET base == [kind |-> "updateTemplate", templateId |-> templateId, input |-> input,
                  at |-> now, pc |-> "done"]
         templates == readTemplates(readOk)
         templateIndex == netlifyFind(templates, templateId)
     IN  IF templateIndex = 0
         THEN /\ ok
              /\ IoOutcome(readOk) /\ IoCount(readOk)
              /\ reqs' = Append(reqs, base @@
                   [resp |-> Resp(404, "Template not found", NetlifyNoId, FALSE, NoId)])
              /\ UNCHANGED templateFiles
         ELSE /\ IoOutcome(readOk /\ ok) /\ IoCount(readOk /\ ok)
              /\ IF ok
                 THEN /\ templateFiles' =
                           Put(templates, templateIndex,
                               netlifyUpdatedTemplate(templates[templateIndex], input, now))
                      /\ reqs' = Append(reqs, base @@
                           [resp |-> Resp(200, "", NetlifyNoId, FALSE, NoId)])
                 ELSE /\ reqs' = Append(reqs, base @@
                           [resp |-> Resp(500, "StorageError", NetlifyNoId, FALSE, NoId)])
                      /\ UNCHANGED templateFiles
  /\ UNCHANGED <<deployment, now, nextUuid, pendingAlerts, alertObjs, alertFiles,
                 documentFiles>>

\* templates.js lines 154-184: DELETE
NetlifyTemplateDelete(templateId, readOk, ok) ==
  /\ deployment = "netlify"
  /\ CanStart("deleteTemplate", MaxDelete, FALSE)
  /\ readOk \/ templateFiles # EmptyMap
  /\ LET base == [kind |-> "deleteTemplate", templateId |-> templateId, at |-> now,
                  pc |-> "done"]
         templates == readTemplates(readOk)
         templateIndex == netlifyFind(templates, templateId)
     IN  IF templateIndex = 0
         THEN /\ ok
              /\ IoOutcome(readOk) /\ IoCount(readOk)
              /\ reqs' = Append(reqs, base @@
                   [resp |-> Resp(404, "Template not found", NetlifyNoId, FALSE, NoId)])
              /\ UNCHANGED templateFiles
         ELSE /\ IoOutcome(readOk /\ ok) /\ IoCount(readOk /\ ok)
              /\ IF ok
                 THEN /\ templateFiles' = Remove(templates, templateIndex)
                      /\ reqs' = Append(reqs, base @@
                           [resp |-> Resp(200, "", NetlifyNoId, FALSE, NoId)])
                 ELSE /\ reqs' = Append(reqs, base @@
                           [resp |-> Resp(500, "StorageError", NetlifyNoId, FALSE, NoId)])
                      /\ UNCHANGED templateFiles
  /\ UNCHANGED <<deployment, now, nextUuid, pendingAlerts, alertObjs, alertFiles,
                 documentFiles>>

\* generate-document (part_002) lines 133-141: the text a template word
\* renders to; the context is the alert itself, so a path through alert.
\* renders to nothing
netlifyRenderWord(w, alertData) ==
  CASE w = "{{title}}" -> Or(Field(alertData, "title"), Empty)
    [] w = "{{alert_type}}" -> Or(Field(alertData, "alert_type"), Empty)
    [] w \in {"{{alert.title}}", "{{alert.type}}", "{{alert.priority}}"} -> Empty
    [] OTHER -> <<w>>

RECURSIVE netlifyRender(_, _)
netlifyRender(content, alertData) ==
  IF content = << >> THEN << >>
  ELSE netlifyRenderWord(Head(content), alertData) \o netlifyRender(Tail(content), alertData)

\* part_002 lines 143-152: the document object
netlifyNewDocument(templateId, template, alertData, dateNow) ==
  [ id |-> <<ToString(dateNow)>>,
    title |-> Or(Field(alertData, "title"), <<"Alert">>) \o <<"-", ToString(dateNow)>>,
    content |-> netlifyRender(template.content, alertData),
    template_id |-> templateId,
    alert_data |-> alertData,
    created_at |-> dateNow, updated_at |-> dateNow ]

\* part_002 lines 88-188: POST generate-document.  The four storage
\* operations are the read of templates.json, the read and the write of
\* documents.json and the write of templates.json.
NetlifyGenerate(templateId, alertData, readOk, docsReadOk, docsOk, ok) ==
  /\ deployment = "netlify"
  /\ CanStart("generate", MaxGenerate, FALSE)
  /\ LET base == [kind |-> "generate", templateId |-> templateId, alertData |-> alertData,
                  at |-> now, pc |-> "done"]
         found == netlifyFind(templateFiles, templateId)
         template == templateFiles[found]
         document == netlifyNewDocument(templateId, template, alertData, now)
         documents == IF docsReadOk THEN documentFiles ELSE EmptyMap
         allOk == readOk /\ docsReadOk /\ docsOk /\ ok
     IN  IF templateId = NetlifyNoId \/ contextThrows(alertData)
         THEN /\ allOk
              /\ reqs' = Append(reqs, base @@
                   [resp |-> Resp(400, "Template ID and alert data are required",
                                  NetlifyNoId, FALSE, NetlifyNoId)])
              /\ UNCHANGED <<templateFiles, documentFiles, nextUuid, ioFailures>>
         ELSE IF ~readOk \/ found = 0
         THEN /\ docsReadOk /\ docsOk /\ ok
              /\ readOk \/ templateFiles # EmptyMap
              /\ IoOutcome(readOk) /\ IoCount(readOk)
              /\ reqs' = Append(reqs, base @@
                   [resp |-> Resp(404, "Template not found", NetlifyNoId, FALSE,
                                  NetlifyNoId)])
              /\ UNCHANGED <<templateFiles, documentFiles, nextUuid>>
         ELSE IF compileThrows(template.content)
         THEN /\ docsReadOk /\ docsOk /\ ok
              /\ reqs' = Append(reqs, base @@
                   [resp |-> Resp(500, "CompileError", NetlifyNoId, FALSE, NetlifyNoId)])
              /\ UNCHANGED <<templateFiles, documentFiles, nextUuid, ioFailures>>
         ELSE /\ docsReadOk \/ documentFiles # EmptyMap
              /\ docsOk \/ ok
              /\ IoOutcome(allOk) /\ IoCount(allOk)
              /\ IF ~docsOk
                 THEN /\ reqs' = Append(reqs, base @@
                           [resp |-> Resp(500, "StorageError", NetlifyNoId, FALSE,
                                          NetlifyNoId)])
                      /\ UNCHANGED <<templateFiles, documentFiles, nextUuid>>
                 ELSE /\ documentFiles' = Put(documents, nextUuid, document)
                      /\ nextUuid' = nextUuid + 1
                      /\ IF ok
                         THEN /\ templateFiles' =
                                   [templateFiles EXCEPT
                                      ![found].usage_count = @ + 1,
                                      ![found].last_used = now]
                              /\ reqs' = Append(reqs, base @@
                                   [document |-> document,
                                    resp |-> Resp(201, "", NetlifyNoId, FALSE, document.id)])
                         ELSE /\ reqs' = Append(reqs, base @@
                                   [document |-> document,
                                    resp |-> Resp(500, "StorageError", NetlifyNoId, FALSE,
                                                  NetlifyNoId)])
                              /\ UNCHANGED templateFiles
  /\ UNCHANGED <<deployment, now, pendingAlerts, alertObjs, alertFiles>>

\* ------------------------------------------------------------------------
\* PUT /api/documents/:documentId (Express router)
\* ------------------------------------------------------------------------

\* update requests to the document route
MaxDocUpdate == 2

\* title?.trim() and content?.trim() throw on a value that has no trim
updateThrows(input) ==
  \/ Field(input, "title") = NotAString
  \/ Field(input, "content") = NotAString

\* lines 222-228 with the title taken as sent, not trimmed
updatedDocument_untrimmed(existingDocument, input, dateNow) ==
  [existingDocument EXCEPT
     !.title = Or(Field(input, "title"), existingDocument.title),
     !.content = Or(optTrim(Field(input, "content")), existingDocument.content),
     !.status = IF "status" \in DOMAIN input /\ input.status # ""
                THEN input.status ELSE existingDocument.status,
     !.updatedAt = dateNow]

\* lines 222-228: the updated copy of a document
updatedDocument(existingDocument, input, dateNow) ==
  [existingDocument EXCEPT
     !.title = Or(optTrim(Field(input, "title")), existingDocument.title),
     !.content = Or(optTrim(Field(input, "content")), existingDocument.content),
     !.status = IF "status" \in DOMAIN input /\ input.status # ""
                THEN input.status ELSE existingDocument.status,
     !.updatedAt = dateNow]

\* lines 203-216: up to the existence test
DocumentUpdateStart(documentId, input, conc) ==
  /\ deployment = "express"
  /\ CanStart("updateDocument", MaxDocUpdate, conc)
  /\ LET base == [kind |-> "updateDocument", documentId |-> documentId, input |-> input,
                  at |-> now]
     IN  IF documentId \notin DOMAIN documentFiles
         THEN reqs' = Append(reqs, base @@
                [pc |-> "done",
                 resp |-> Resp(404, "Document not found", NoId, FALSE, NoId)])
         ELSE reqs' = Append(reqs, base @@ [pc |-> "read", resp |-> NoResp])
  /\ UNCHANGED <<deployment, now, nextUuid, pendingAlerts, alertObjs, alertFiles, templateFiles,
                 documentFiles, ioFailures>>

\* lines 218-228: the document file is read and the updated copy built; a
\* removed file and a field without trim end in the catch (500)
DocumentUpdateRead(i) ==
  /\ i \in 1..Len(reqs)
  /\ reqs[i].kind = "updateDocument" /\ reqs[i].pc = "read"
  /\ LET r == reqs[i]
     IN  IF r.documentId \in DOMAIN documentFiles /\ ~updateThrows(r.input)
         THEN reqs' = [reqs EXCEPT ![i] =
                [pc |-> "write",
                 document |-> updatedDocument(documentFiles[r.documentId], r.input, now)]
                @@ r]
         ELSE reqs' = [reqs EXCEPT ![i].pc = "done",
                         ![i].resp = Resp(500, "Failed to update document", NoId, FALSE,
                                          NoId)]
  /\ UNCHANGED <<deployment, now, nextUuid, pendingAlerts, alertObjs, alertFiles, templateFiles,
                 documentFiles, ioFailures>>

\* lines 230-251: the updated copy is written
DocumentUpdateWrite(i, ok) ==
  /\ i \in 1..Len(reqs)
  /\ reqs[i].kind = "updateDocument" /\ reqs[i].pc = "write"
  /\ IoOutcome(ok) /\ IoCount(ok)
  /\ IF ok
     THEN /\ documentFiles' = Put(documentFiles, reqs[i].documentId, reqs[i].document)
          /\ reqs' = [reqs EXCEPT ![i].pc = "done",
                        ![i].resp = Resp(200, "", NoId, FALSE, reqs[i].documentId)]
     ELSE /\ reqs' = [reqs EXCEPT ![i].pc = "done",
                        ![i].resp = Resp(500, "StorageError", NoId, FALSE, NoId)]
          /\ UNCHANGED documentFiles
  /\ UNCHANGED <<deployment, now, nextUuid, pendingAlerts, alertObjs, alertFiles,
                 templateFiles>>

\* ------------------------------------------------------------------------
\* GET /api/webhook/alert/:alertId   (part_004, lines 235-269)
\* ------------------------------------------------------------------------

\* bound: the number of alert-detail requests
MaxAlertGet == 2

\* lines 237-241: the Map is tried first; a hit is answered at once, a miss
\* goes on to the file system
AlertGetStart(alertId, conc) ==
  /\ deployment = "express"
  /\ CanStart("alertGet", MaxAlertGet, conc)
  /\ LET base == [kind |-> "alertGet", alertId |-> alertId, at |-> now]
     IN  IF InSeq(pendingAlerts, alertId)
         THEN reqs' = Append(reqs, base @@
                [pc |-> "done", found |-> alertObjs[alertId],
                 resp |-> Resp(200, "", alertId, FALSE, NoId)])
         ELSE reqs' = Append(reqs, base @@
                [pc |-> "file", found |-> NoAlert, resp |-> NoResp])
  /\ UNCHANGED <<deployment, now, nextUuid, pendingAlerts, alertObjs, alertFiles, templateFiles,
                 documentFiles, ioFailures>>

\* lines 244-268: the alert file is read when it exists (no route removes an
\* alert file); no file is answered 404 and a failed read 500
AlertGetFile(i, ok) ==
  /\ i \in 1..Len(reqs)
  /\ reqs[i].kind = "alertGet" /\ reqs[i].pc = "file"
  /\ LET r == reqs[i]
     IN  IF r.alertId \notin DOMAIN alertFiles
         THEN /\ ok
              /\ reqs' = [reqs EXCEPT ![i].pc = "done",
                   ![i].resp = Resp(404, "Alert not found", NoId, FALSE, NoId)]
              /\ UNCHANGED ioFailures
         ELSE /\ IoOutcome(ok) /\ IoCount(ok)
              /\ IF ok
                 THEN reqs' = [reqs EXCEPT ![i].pc = "done",
                        ![i].found = alertFiles[r.alertId],
                        ![i].resp = Resp(200, "", r.alertId, FALSE, NoId)]
                 ELSE reqs' = [reqs EXCEPT ![i].pc = "done",
                        ![i].resp = Resp(500, "Failed to fetch alert", NoId, FALSE, NoId)]
  /\ UNCHANGED <<deployment, now, nextUuid, pendingAlerts, alertObjs, alertFiles, templateFiles,
                 documentFiles>>

\* ------------------------------------------------------------------------
\* Specifications
\* ------------------------------------------------------------------------

\* webhook bodies of the model
Bodies ==
  { [type |-> "json", json |-> [alert_type |-> <<"error">>, title |-> <<"CPU">>]],
    [type |-> "json", json |-> [alert_type |-> <<"error">>, title |-> <<"Disk">>,
                                priority |-> <<"critical">>, id |-> <<"evt-7">>]],
    [type |-> "json", json |-> [alert_type |-> <<"error">>, title |-> <<"CPU">>,
                                org |-> <<"acme">>, id |-> <<"evt-7">>]],
    [type |-> "text", text |-> <<"[Triggered]", "CPU">>],
    [type |-> "other"] }

\* ids a client may name: the ids of the entities and one id of none
AlertIds == DOMAIN alertObjs \cup {UnknownId}

TemplateIds == DOMAIN templateFiles \cup {UnknownId}

NetlifyAlertIds ==
  IF deployment = "netlify"
  THEN {alertObjs[ref].id : ref \in DOMAIN alertObjs} \cup {NetlifyUnknownId}
  ELSE {}

Steps ==
  \/ Tick
  \/ \E i \in 1..Len(reqs), ok \in BOOLEAN : IngestWrite(i, ok)
  \/ \E i \in 1..Len(reqs) : ProcessLoad(i)
  \/ \E i \in 1..Len(reqs), ok \in BOOLEAN : ProcessSave(i, ok)
  \/ \E i \in 1..Len(reqs) : ProcessUsageRead(i)
  \/ \E i \in 1..Len(reqs), ok \in BOOLEAN : ProcessUsageWrite(i, ok)
  \/ \E i \in 1..Len(reqs), ok \in BOOLEAN : ProcessAlertWrite(i, ok)

Starts(conc) ==
  \/ \E body \in Bodies : IngestStart(body, conc)
  \/ \E alertId \in AlertIds, templateId \in {NoId} \cup TemplateIds :
       ProcessStart(alertId, templateId, conc)

NetlifySteps ==
  \E i \in 1..Len(reqs), readOk \in BOOLEAN, ok \in BOOLEAN :
    NetlifyIngestFile(i, readOk, ok)

NetlifyStarts ==
  \/ \E body \in Bodies : NetlifyIngestStart(body)
  \/ \E alertId \in NetlifyAlertIds, templateId \in {NoId} \cup TemplateIds :
       NetlifyProcess(alertId, templateId)

\* requests are handled one at a time
Next == Starts(FALSE) \/ NetlifyStarts \/ Steps \/ NetlifySteps

\* ------------------------------------------------------------------------
\* The pure functions, applied once to an input drawn from a bounded set
\* ------------------------------------------------------------------------

\* bounds: the number of words of a priority or alert type, and of a text body
MaxPriorityWords == 1
MaxTextWords == 3

SeqsUpTo(S, n) == UNION {[1..k -> S] : k \in 0..n}

PriorityWords ==
  {"critical", "Critical", "high", "error", "ERROR", "warning", "Warning", "warn",
   "medium", "info", "INFO", "low", "slow", "anomaly", "P1", "recovery"}

TextWords ==
  {"[Triggered]", "Anomaly Detected", "Normalized", "Recovery", "[Recovery]",
   "anomaly", "CPU", "\n", "42"}

\* alerts given to determinePriority: the priority field is missing, not a
\* string, or a string; alert_type is missing or a string
PriorityAlerts ==
  {[priority |-> p, alert_type |-> t] :
     p \in {Undef, NotAString} \cup SeqsUpTo(PriorityWords, MaxPriorityWords),
     t \in {Undef} \cup SeqsUpTo(PriorityWords, MaxPriorityWords)}

DeterminePriorityCall(alertData) ==
  /\ reqs = << >>
  /\ reqs' = <<[kind |-> "determinePriority", pc |-> "done", alertData |-> alertData,
               result |-> determinePriority(alertData)]>>
  /\ UNCHANGED <<deployment, now, nextUuid, pendingAlerts, alertObjs, alertFiles, templateFiles,
                 documentFiles, ioFailures>>

\* one call, on any alert of PriorityAlerts
NextPriority ==
  /\ reqs = << >>
  /\ \E alertData \in PriorityAlerts : DeterminePriorityCall(alertData)

SpecPriority == InitOf("express") /\ [][NextPriority]_vars

\* a string body is parsed by the Express router
ParseTextCall(text) ==
  /\ deployment = "express"
  /\ reqs = << >>
  /\ reqs' = <<[kind |-> "parseBody", pc |-> "done", text |-> text,
               result |-> parseBody([type |-> "text", text |-> text], now)]>>
  /\ UNCHANGED <<deployment, now, nextUuid, pendingAlerts, alertObjs, alertFiles, templateFiles,
                 documentFiles, ioFailures>>

\* a string body is parsed by the Netlify function
NetlifyParseTextCall(text) ==
  /\ deployment = "netlify"
  /\ reqs = << >>
  /\ reqs' = <<[kind |-> "parseBody", pc |-> "done", text |-> text,
               result |-> netlifyParseBody([type |-> "text", text |-> text], now)]>>
  /\ UNCHANGED <<deployment, now, nextUuid, pendingAlerts, alertObjs, alertFiles,
                 templateFiles, documentFiles, ioFailures>>

\* one call, on any text body
NextText ==
  \/ /\ reqs = << >>
     /\ \E text \in SeqsUpTo(TextWords, MaxTextWords) : ParseTextCall(text)
  \/ /\ reqs = << >>
     /\ \E text \in SeqsUpTo(TextWords, MaxTextWords) : NetlifyParseTextCall(text)

SpecText == Init /\ [][NextText]_vars

\* bound: the number of words of a previewed template body
MaxTemplateWords == 2

TemplateWords ==
  {"Alert", "{{alert.title}}", "{{alert.type}}", "{{alert.priority}}", "{{#if"}

PreviewTemplates == {NotAString} \cup SeqsUpTo(TemplateWords, MaxTemplateWords)

PreviewAlerts ==
  { NoAlert,
    [alert_type |-> <<"error">>, title |-> <<"CPU">>],
    [alert_type |-> <<"warning">>],
    [title |-> <<"Disk">>, priority |-> <<"critical">>],
    [message |-> <<"[Triggered]", "CPU">>] }

\* previewTemplate is called; nothing but the returned object is produced
Preview(templateContent, alertData) ==
  /\ reqs = << >>
  /\ reqs' = <<[kind |-> "preview", pc |-> "done", templateContent |-> templateContent,
               alertData |-> alertData,
               result |-> previewTemplate(templateContent, alertData)]>>
  /\ UNCHANGED <<deployment, now, nextUuid, pendingAlerts, alertObjs, alertFiles,
                 templateFiles, documentFiles, ioFailures>>

\* one call, on any template body and alert
NextPreview ==
  /\ reqs = << >>
  /\ \E templateContent \in PreviewTemplates, alertData \in PreviewAlerts :
       Preview(templateContent, alertData)

SpecPreview == InitOf("express") /\ [][NextPreview]_vars

\* JSON payloads given to the normalisation: each known field is absent
\* (undefined) or present; the title may also be the empty string
JsonPayloads ==
  {[event_type |-> e, alert_type |-> a, title |-> t, event_title |-> et,
    body |-> b, message |-> m] :
     e \in {Undef, <<"triggered">>}, a \in {Undef, <<"error">>},
     t \in {Undef, Empty, <<"CPU">>}, et \in {Undef, <<"Disk">>},
     b \in {Undef, <<"load", "high">>}, m \in {Undef, <<"see", "dashboard">>}}

\* an object body is parsed by the Express router
ParseJsonCall(payload) ==
  /\ deployment = "express"
  /\ reqs = << >>
  /\ reqs' = <<[kind |-> "parseJson", pc |-> "done", payload |-> payload,
               result |-> parseBody([type |-> "json", json |-> payload], now)]>>
  /\ UNCHANGED <<deployment, now, nextUuid, pendingAlerts, alertObjs, alertFiles,
                 templateFiles, documentFiles, ioFailures>>

\* a body holding a JSON object is parsed by the Netlify function
NetlifyParseJsonCall(payload) ==
  /\ deployment = "netlify"
  /\ reqs = << >>
  /\ reqs' = <<[kind |-> "parseJson", pc |-> "done", payload |-> payload,
               result |-> netlifyParseBody([type |-> "json", json |-> payload], now)]>>
  /\ UNCHANGED <<deployment, now, nextUuid, pendingAlerts, alertObjs, alertFiles,
                 templateFiles, documentFiles, ioFailures>>

\* one call, on any JSON payload
NextJson ==
  \/ /\ reqs = << >>
     /\ \E payload \in JsonPayloads : ParseJsonCall(payload)
  \/ /\ reqs = << >>
     /\ \E payload \in JsonPayloads : NetlifyParseJsonCall(payload)

SpecJson == Init /\ [][NextJson]_vars

\* webhook bodies for the ingest alone: those of Bodies, structured payloads
\* without alert_type, and a string that is JSON text
IngestBodies ==
  Bodies \cup
  { [type |-> "json", json |-> [title |-> <<"Disk">>]],
    [type |-> "json", json |-> [event_type |-> <<"triggered">>, title |-> <<"CPU">>]],
    [type |-> "text", text |-> <<"42">>] }

\* webhook ingests only, one at a time
NextIngest ==
  \/ Tick
  \/ \E body \in IngestBodies : IngestStart(body, FALSE)
  \/ \E i \in 1..Len(reqs), ok \in BOOLEAN : IngestWrite(i, ok)
  \/ \E body \in IngestBodies : NetlifyIngestStart(body)
  \/ NetlifySteps

SpecIngest == Init /\ [][NextIngest]_vars

\* alerts handed to generateAlertHash: the hashed fields and two others
HashAlerts ==
  {[alert_type |-> a, title |-> t, event_title |-> et, org |-> o, id |-> id,
    message |-> m, priority |-> p] :
     a \in {<<"error">>, <<"warning">>}, t \in {Undef, <<"CPU">>},
     et \in {Undef, <<"CPU">>}, o \in {Undef, Empty, <<"acme">>},
     id \in {Undef, <<"evt-7">>}, m \in {Undef, <<"load", "high">>},
     p \in {Undef, <<"high">>}}

\* number of generateAlertHash calls compared
HashCalls == 2

\* generateAlertHash is called on an alert at the current time
HashCall(alert) ==
  /\ Len(reqs) < HashCalls
  /\ reqs' = Append(reqs, [kind |-> "hash", pc |-> "done", alert |-> alert, at |-> now,
                           result |-> generateAlertHash(alert, now)])
  /\ UNCHANGED <<deployment, now, nextUuid, pendingAlerts, alertObjs, alertFiles, templateFiles,
                 documentFiles, ioFailures>>

\* two calls, the clock advancing between them or not
NextHash ==
  \/ Tick
  \/ /\ Len(reqs) < HashCalls
     /\ \E alert \in HashAlerts : HashCall(alert)

SpecHash == InitOf("express") /\ [][NextHash]_vars

\* bodies of template create requests
TemplateInputs ==
  { [name |-> <<"Runbook">>, content |-> <<"Title:", "{{alert.title}}", "{{title}}">>],
    [name |-> <<Blank>>, content |-> <<"Steps">>],
    [content |-> <<"Steps">>] }

\* bodies of template update requests
TemplateUpdates ==
  { [name |-> <<"Renamed">>, content |-> <<"Changed", "{{alert.type}}">>],
    [description |-> <<"on", "call">>] }

\* ids of templates a Netlify client may name
NetlifyTemplateIds ==
  IF deployment = "netlify"
  THEN {templateFiles[ref].id : ref \in DOMAIN templateFiles} \cup {NetlifyUnknownId}
  ELSE {}

\* alerts posted to generate-document
GenerateAlerts == { [alert_type |-> <<"error">>, title |-> <<"CPU">>], NoAlert }

\* requests in one behaviour of the template specification
MaxRequests == 3

\* the template a first operator has just created through the Netlify
\* function (POST templates at StartNow)
NetlifySeedTemplate ==
  netlifyNewTemplate([name |-> <<"Incident">>,
                      content |-> <<"Alert", "{{title}}", "{{alert_type}}">>], StartNow)

\* each deployment with its first template stored
InitTemplates ==
  \/ InitOf("express")
  \/ /\ deployment = "netlify"
     /\ now = StartNow
     /\ nextUuid = 2
     /\ pendingAlerts = << >>
     /\ alertObjs = EmptyMap
     /\ alertFiles = EmptyMap
     /\ templateFiles = Put(EmptyMap, 1, NetlifySeedTemplate)
     /\ documentFiles = EmptyMap
     /\ reqs = << >>
     /\ ioFailures = 0

TemplateStarts(conc) ==
  \/ \E input \in TemplateInputs : TemplateCreateStart(input, conc)
  \/ \E templateId \in TemplateIds : TemplateGet(templateId, conc)
  \/ \E templateId \in TemplateIds, input \in TemplateUpdates :
       TemplateUpdateStart(templateId, input, conc)
  \/ \E templateId \in TemplateIds : TemplateDeleteStart(templateId, conc)

TemplateSteps ==
  \/ \E i \in 1..Len(reqs), ok \in BOOLEAN : TemplateCreateWrite(i, ok)
  \/ \E i \in 1..Len(reqs) : TemplateUpdateRead(i)
  \/ \E i \in 1..Len(reqs), ok \in BOOLEAN : TemplateUpdateWrite(i, ok)
  \/ \E i \in 1..Len(reqs), ok \in BOOLEAN : TemplateDeleteRemove(i, ok)

NetlifyTemplateStarts ==
  \/ \E input \in TemplateInputs, readOk \in BOOLEAN, ok \in BOOLEAN :
       NetlifyTemplateCreate(input, readOk, ok)
  \/ \E readOk \in BOOLEAN : NetlifyTemplateGet(readOk)
  \/ \E templateId \in NetlifyTemplateIds, input \in TemplateUpdates,
        readOk \in BOOLEAN, ok \in BOOLEAN :
       NetlifyTemplateUpdate(templateId, input, readOk, ok)
  \/ \E templateId \in NetlifyTemplateIds, readOk \in BOOLEAN, ok \in BOOLEAN :
       NetlifyTemplateDelete(templateId, readOk, ok)
  \/ \E templateId \in NetlifyTemplateIds \cup {NetlifyNoId}, alertData \in GenerateAlerts,
        readOk \in BOOLEAN, docsReadOk \in BOOLEAN, docsOk \in BOOLEAN, ok \in BOOLEAN :
       NetlifyGenerate(templateId, alertData, readOk, docsReadOk, docsOk, ok)

\* the template routes, with one alert to ingest and render; requests are
\* handled one at a time
NextTemplates ==
  \/ /\ Len(reqs) < MaxRequests
     /\ TemplateStarts(FALSE)
  \/ /\ Len(reqs) < MaxRequests
     /\ NetlifyTemplateStarts
  \/ /\ Len(reqs) < MaxRequests
     /\ IngestStart([type |-> "json", json |-> [alert_type |-> <<"error">>, title |-> <<"CPU">>]],
                    FALSE)
  \/ /\ Len(reqs) < MaxRequests
     /\ \E alertId \in AlertIds, templateId \in TemplateIds :
          ProcessStart(alertId, templateId, FALSE)
  \/ Steps
  \/ TemplateSteps

SpecTemplates == InitTemplates /\ [][NextTemplates]_vars

\* tags of the model: the four host keys, another key, a value with a colon
\* in it, a tag without a colon and a tag that is not a string
TagPool ==
  { <<"env", "prod">>, <<"environment", "stage">>, <<"service", "api">>,
    <<"service", "api", "v2">>, <<"team", "sre">>, <<"region", "us">>,
    <<"owner", "bob">>, <<"env", "dev">>, <<"env">>, NotAString }

\* longest tag list
MaxTags == 2

\* the tags field of an alert: a list of tags, or no list
TagFields ==
  {[isArray |-> TRUE, items |-> items] : items \in SeqsUpTo(TagPool, MaxTags)}
    \cup {[isArray |-> FALSE]}

\* the host group of the context is built for an alert with these tags
HostContextCall(tags) ==
  /\ reqs = << >>
  /\ reqs' = <<[kind |-> "hostContext", pc |-> "done", tags |-> tags,
               result |-> hostContext([tags |-> tags])]>>
  /\ UNCHANGED <<deployment, now, nextUuid, pendingAlerts, alertObjs, alertFiles, templateFiles,
                 documentFiles, ioFailures>>

\* one call, on any tags field of TagFields
NextTags ==
  /\ reqs = << >>
  /\ \E tags \in TagFields : HostContextCall(tags)

SpecTags == InitOf("express") /\ [][NextTags]_vars

\* bodies of document update requests
DocumentUpdates ==
  { [title |-> <<"Postmortem">>],
    [title |-> <<Blank>>, content |-> <<"Fixed", Blank>>],
    [title |-> Empty, content |-> Empty, status |-> "reviewed"],
    [content |-> <<Blank>>, status |-> ""],
    [title |-> NotAString, status |-> "reviewed"] }

\* ids of documents a client may name
DocumentIds == DOMAIN documentFiles \cup {UnknownId}

\* requests in one behaviour of the document specification
MaxDocRequests == 4

\* the document route, with one alert to ingest and render; requests are
\* handled one at a time
NextDocuments ==
  \/ /\ Len(reqs) < MaxDocRequests
     /\ IngestStart([type |-> "json", json |-> [alert_type |-> <<"error">>, title |-> <<"CPU">>]],
                    FALSE)
  \/ /\ Len(reqs) < MaxDocRequests
     /\ \E alertId \in DOMAIN alertObjs : ProcessStart(alertId, 1, FALSE)
  \/ /\ Len(reqs) < MaxDocRequests
     /\ \E documentId \in DocumentIds, input \in DocumentUpdates :
          DocumentUpdateStart(documentId, input, FALSE)
  \/ Steps
  \/ \E i \in 1..Len(reqs) : DocumentUpdateRead(i)
  \/ \E i \in 1..Len(reqs), ok \in BOOLEAN : DocumentUpdateWrite(i, ok)

SpecDocuments == InitOf("express") /\ [][NextDocuments]_vars

\* ingest, process and alert-detail requests of the Express server, one at a
\* time
MaxAlertRequests == 5

AlertBodies ==
  { [type |-> "json", json |-> [alert_type |-> <<"error">>, title |-> <<"CPU">>]],
    [type |-> "json", json |-> [title |-> <<"Disk">>]] }

NextAlerts ==
  \/ /\ Len(reqs) < MaxAlertRequests
     /\ \E body \in AlertBodies : IngestStart(body, FALSE)
  \/ /\ Len(reqs) < MaxAlertRequests
     /\ \E alertId \in AlertIds, templateId \in TemplateIds : ProcessStart(alertId, templateId, FALSE)
  \/ /\ Len(reqs) < MaxAlertRequests
     /\ \E alertId \in AlertIds : AlertGetStart(alertId, FALSE)
  \/ \E i \in 1..Len(reqs), ok \in BOOLEAN : AlertGetFile(i, ok)
  \/ Steps

SpecAlerts == InitOf("express") /\ [][NextAlerts]_vars

\* renders and updates of the seed template of the Express server, the
\* handlers interleaving at their awaits
MaxUsageRequests == 4

NextUsage ==
  \/ /\ Len(reqs) < MaxUsageRequests
     /\ \E body \in AlertBodies : IngestStart(body, FALSE)
  \/ /\ Len(reqs) < MaxUsageRequests
     /\ \E alertId \in DOMAIN alertObjs : ProcessStart(alertId, 1, TRUE)
  \/ /\ Len(reqs) < MaxUsageRequests
     /\ TemplateUpdateStart(1, [description |-> <<"Runbook">>], TRUE)
  \/ \E i \in 1..Len(reqs) : TemplateUpdateRead(i)
  \/ \E i \in 1..Len(reqs), ok \in BOOLEAN : TemplateUpdateWrite(i, ok)
  \/ Steps

SpecUsage == InitOf("express") /\ [][NextUsage]_vars

Spec == Init /\ [][Next]_vars

\* handlers interleave at their awaits
NextConc == Starts(TRUE) \/ Steps

SpecConc == InitOf("express") /\ [][NextConc]_vars

\* ------------------------------------------------------------------------
\* Properties
\* ------------------------------------------------------------------------

\* request i is a process request answered with success
ProcessSucceeded(i) == reqs[i].kind = "process" /\ reqs[i].resp.status = 200

\* a process request arrives in this step
ProcessArrives == Len(reqs') = Len(reqs) + 1 /\ reqs'[Len(reqs')].kind = "process"

\* request i is an ingest answered with success (a new alert or a duplicate)
IngestAccepted(i) == reqs[i].kind = "ingest" /\ reqs[i].resp.status = 200

\* the title an ingest was normalised to
TitleOf(i) == Field(reqs[i].alert, "title")

\* C1 as stated: two accepted ingests with equal normalized alertType and
\* title in the same 5-minute bucket get the same alertId and the second is
\* flagged duplicate; two accepted ingests that differ in title get
\* different alertIds
C1_SameAlertSameId ==
  \A i, j \in 1..Len(reqs) :
    (i < j /\ IngestAccepted(i) /\ IngestAccepted(j)) =>
      /\ (/\ Field(reqs[i].alert, "alert_type") = Field(reqs[j].alert, "alert_type")
          /\ TitleOf(i) = TitleOf(j)
          /\ reqs[i].at \div WindowMs = reqs[j].at \div WindowMs)
           => /\ reqs[j].resp.alertId = reqs[i].resp.alertId
              /\ reqs[j].resp.duplicate
      /\ TitleOf(i) # TitleOf(j) => reqs[j].resp.alertId # reqs[i].resp.alertId

\* C2 as stated: no two alerts of the in-memory pending set carry the same
\* dedup fingerprint
C2_UniqueFingerprint ==
  \A i, j \in 1..Len(pendingAlerts) :
    i # j => alertObjs[pendingAlerts[i]].alertHash # alertObjs[pendingAlerts[j]].alertHash

\* the alert of a successful process request has status processed and is
\* neither in the pending set nor in the pending listing
C3_Removed ==
  \A i \in 1..Len(reqs) :
    ProcessSucceeded(i) =>
      LET a == reqs[i].ref
      IN  /\ ~InSeq(pendingAlerts, a)
          /\ alertObjs[a].status = "processed"
          /\ deployment = "express" =>
               /\ a \notin pendingListing
               /\ a \in DOMAIN alertFiles
               /\ alertFiles[a].status = "processed"

\* a process request (one that names a templateId) that arrives for an
\* alertId already processed with success is answered 404 at once and writes
\* no document
C3_LaterNotFound ==
  ProcessArrives =>
    LET r == reqs'[Len(reqs')]
    IN  (/\ r.templateId # NoId
         /\ \E i \in 1..Len(reqs) : ProcessSucceeded(i) /\ reqs[i].alertId = r.alertId)
          => /\ r.resp.status = 404
             /\ r.pc = "done"
             /\ documentFiles' = documentFiles
             /\ nextUuid' = nextUuid

\* C3 as stated: after a process request for a pending alert succeeds, the
\* alert has status processed, is in neither the pending set nor the pending
\* listing, and every later process request for the same alertId answers
\* NotFound without generating another document
C3_ProcessedOnce == [] C3_Removed /\ [][C3_LaterNotFound]_vars

\* generateDocument returns in this step for request i
RenderReturns(i) ==
  /\ reqs[i].kind = "process"
  /\ reqs[i].pc \in {"usageRead", "usageWrite"}
  /\ reqs'[i].pc = "alertWrite"

\* C4 as stated: each successful render of a template increases its stored
\* usageCount by exactly 1 and does not move its last-used timestamp back
C4_RenderCountsUsage ==
  [][\A i \in 1..Len(reqs) :
       RenderReturns(i) =>
         LET t == reqs[i].templateId
         IN  /\ t \in DOMAIN templateFiles'
             /\ templateFiles'[t].usageCount = templateFiles[t].usageCount + 1
             /\ templateFiles'[t].lastUsed >= templateFiles[t].lastUsed]_vars

\* generateDocument of request i finds no template in this step
TemplateMissing(i) ==
  /\ reqs[i].kind = "process" /\ reqs[i].pc = "load"
  /\ reqs[i].templateId \notin DOMAIN templateFiles
  /\ reqs'[i] # reqs[i]

C6_UnknownIdNotFound ==
  \A i \in 1..Len(reqs) :
    (/\ deployment = "express"
     /\ reqs[i].kind = "process" /\ reqs[i].pc = "done"
     /\ reqs[i].templateId # NoId
     /\ reqs[i].alertId = UnknownId \/ reqs[i].templateId = UnknownId)
      => reqs[i].resp.status = 404

\* the stores and the pending set
Stores == <<documentFiles, templateFiles, pendingAlerts, alertObjs, alertFiles>>

\* the object previewTemplate returned has one of the two shapes
PreviewResultShape(r) ==
  LET throws == ~IsString(r.templateContent)
                  \/ \E k \in 1..Len(r.templateContent) : r.templateContent[k] = "{{#if"
  IN  IF r.alertData # NoAlert /\ ~throws
      THEN r.result.success /\ IsString(r.result.content) /\ r.result.error = ""
      ELSE /\ ~r.result.success
           /\ r.result.content = Undef
           /\ r.result.error # ""
           /\ r.alertData # NoAlert => r.result.error = "CompileError"

C9_JsonPriorityDerived ==
  \A d \in DOMAIN documentFiles :
    LET doc == documentFiles[d]
        payload == doc.originalAlert.originalPayload
    IN  doc.originalAlert.source = "datadog_json" =>
          /\ (Field(payload, "priority") = Undef /\ Field(payload, "alert_type") = <<"error">>)
               => doc.priority = "high"
          /\ Field(payload, "priority") = <<"critical">> => doc.priority = "high"

\* the keyword test of the priority derivation on a value
HasAny(v, keywords) == IsString(v) /\ \E k \in keywords : includes(toLowerCase(v), k)

HighWords == {"critical", "high", "error"}

MediumWords == {"warning", "medium", "warn"}

LowWords == {"info", "low"}

\* the result by alertType alone: error/critical high, else medium
ByAlertType(t) == IF HasAny(t, {"error", "critical"}) THEN "high" ELSE "medium"

\* the result of the keyword test on value v, by alertType t when none matches
ByKeywords(v, t) ==
  IF HasAny(v, HighWords) THEN "high"
  ELSE IF HasAny(v, MediumWords) THEN "medium"
  ELSE IF HasAny(v, LowWords) THEN "low"
  ELSE ByAlertType(t)

IsAlertWord(w) == w \in {"[Triggered]", "Anomaly Detected"}

IsRecoveryWord(w) == w \in {"Normalized", "Recovery", "[Recovery]"}

\* C10 as stated: a plain-text body is classified error if it contains "[Triggered]" or
\* "Anomaly Detected" (also when recovery markers are present), else recovery
\* if it contains "Normalized" or "Recovery", else info, and is never rejected
C10_TextClassified ==
  \A i \in 1..Len(reqs) :
    reqs[i].kind = "parseBody" =>
      LET text == reqs[i].text
          isAlert == \E k \in 1..Len(text) : IsAlertWord(text[k])
          isRecovery == \E k \in 1..Len(text) : IsRecoveryWord(text[k])
      IN  /\ ~reqs[i].result.rejected
          /\ reqs[i].result.alert.alert_type =
               IF isAlert THEN <<"error">>
               ELSE IF isRecovery THEN <<"recovery">> ELSE <<"info">>

\* C11 as stated: a JSON payload is normalized so that alertType is
\* event_type if present, else alert_type, else "info"; title is title if
\* present, else event_title; message is body if present, else message; the
\* title is "Datadog Alert" only when both title and message are missing
C11_JsonNormalized ==
  \A i \in 1..Len(reqs) :
    reqs[i].kind = "parseJson" =>
      LET p == reqs[i].payload
          r == reqs[i].result
          title == Or(p.title, p.event_title)
          message == Or(p.body, p.message)
      IN  /\ ~r.rejected
          /\ Field(r.alert, "alert_type") = Or(Or(p.event_type, p.alert_type), <<"info">>)
          /\ Truthy(title) => Field(r.alert, "title") = title
          /\ Truthy(message) => Field(r.alert, "message") = message
          /\ (~Truthy(title) /\ ~Truthy(message))
               => Field(r.alert, "title") = <<"Datadog Alert">>
          /\ (~Truthy(title) /\ Truthy(message))
               => Field(r.alert, "title") # <<"Datadog Alert">>

\* an ingest arrives in this step
IngestArrives == Len(reqs') = Len(reqs) + 1 /\ reqs'[Len(reqs')].kind = "ingest"

\* a rejected ingest is answered at once and creates nothing
C12_RejectCreatesNothing ==
  IngestArrives =>
    LET r == reqs'[Len(reqs')]
    IN  r.resp.status = 400 =>
          /\ r.pc = "done"
          /\ r.resp.alertId = (IF deployment = "express" THEN NoId ELSE NetlifyNoId)
          /\ UNCHANGED <<pendingAlerts, alertObjs, alertFiles, nextUuid>>

\* a body that is neither an object nor a string is rejected, and no ingest
\* that is not rejected is left without alertType
C12_Rejected ==
  \A i \in 1..Len(reqs) :
    reqs[i].kind = "ingest" =>
      /\ reqs[i].body.type = "other" => reqs[i].resp.status = 400
      /\ reqs[i].resp.status # 400 => Truthy(Field(reqs[i].alert, "alert_type"))

\* C12: the webhook ingest rejects with 400, creating no pending alert and no
\* stored record, when a structured payload yields no alertType or when the
\* body is neither valid JSON nor a string
C12_InvalidPayload == [] C12_Rejected /\ [][C12_RejectCreatesNothing]_vars

\* with an alert pending and stored, a structured payload without alertType
\* was rejected, and the pending set and the store still hold that one alert
C12_Witness ==
  /\ Len(reqs) = 2
  /\ IngestAccepted(1) /\ ~reqs[1].resp.duplicate /\ reqs[1].pc = "done"
  /\ reqs[2].kind = "ingest" /\ reqs[2].body.type = "json"
  /\ ~Truthy(Field(reqs[2].body.json, "alert_type"))
  /\ reqs[2].resp.status = 400
  /\ Len(pendingAlerts) = 1
  /\ Cardinality(DOMAIN alertFiles) = 1

\* the 5-minute bucket of a time
Bucket(t) == t \div WindowMs

\* the five inputs as the claim names them: title or "untitled", org and
\* source id when the field is present
InputsAsStated(alert, t) ==
  <<alert.alert_type, Or(alert.title, <<"untitled">>), Bucket(t), alert.org, alert.id>>

InputsHashed(alert, t) ==
  <<alert.alert_type, Or(Or(alert.title, alert.event_title), <<"untitled">>), Bucket(t),
    IF Truthy(alert.org) THEN alert.org ELSE Undef,
    IF Truthy(alert.id) THEN alert.id ELSE Undef>>

SameIdentity(a, b) ==
  /\ Field(a, "alert_type") = Field(b, "alert_type")
  /\ Field(a, "title") = Field(b, "title")
  /\ Field(a, "org") = Field(b, "org")
  /\ Field(a, "id") = Field(b, "id")

\* the pending alerts that agree with an alert on alertType, title, org and
\* source id
PendingLike(alert) ==
  {id \in DOMAIN alertObjs :
     /\ InSeq(pendingAlerts, id)
     /\ alertObjs[id].status = "pending_template_selection"
     /\ SameIdentity(alertObjs[id].originalPayload, alert)}

\* an ingest that arrives in a later bucket than every pending alert it
\* equals is not a duplicate and gets an id no alert has
C14_ArrivesAsNew ==
  (deployment = "express" /\ IngestArrives) =>
    LET r == reqs'[Len(reqs')]
    IN  (/\ r.resp.status # 400
         /\ PendingLike(r.alert) # {}
         /\ \A id \in PendingLike(r.alert) : Bucket(alertObjs[id].timestamp) < Bucket(now))
        => /\ r.pc = "write"
           /\ ~r.resp.duplicate
           /\ r.ref \notin DOMAIN alertObjs \cup DOMAIN alertFiles

\* an ingest whose write succeeds is answered with its own id, and the
\* pending set then holds it next to every alert that was pending
C14_BothPending ==
  \A i \in 1..Len(reqs) :
    (/\ deployment = "express"
     /\ reqs[i].kind = "ingest" /\ reqs[i].pc = "write"
     /\ reqs'[i].pc = "done" /\ reqs'[i].resp.status = 200)
    => /\ reqs'[i].resp.alertId = reqs[i].ref
       /\ ~reqs'[i].resp.duplicate
       /\ InSeq(pendingAlerts', reqs[i].ref)
       /\ \A k \in 1..Len(pendingAlerts) : InSeq(pendingAlerts', pendingAlerts[k])
       /\ alertObjs'[reqs[i].ref].status = "pending_template_selection"

\* C14: an ingest that equals a still-pending alert in alertType, title, org
\* and source id but arrives in a later 5-minute bucket is accepted as a new
\* alert: fresh alertId, no duplicate flag, both alerts pending afterwards
C14_LaterBucketIsNew == [][C14_ArrivesAsNew /\ C14_BothPending]_vars

\* the same alert was ingested in two buckets and both are pending under
\* different ids
C14_Witness ==
  /\ deployment = "express"
  /\ Len(reqs) = 2
  /\ IngestAccepted(1) /\ IngestAccepted(2)
  /\ reqs[1].pc = "done" /\ reqs[2].pc = "done"
  /\ SameIdentity(reqs[1].alert, reqs[2].alert)
  /\ Bucket(reqs[1].at) < Bucket(reqs[2].at)
  /\ ~reqs[2].resp.duplicate
  /\ reqs[1].resp.alertId # reqs[2].resp.alertId
  /\ pendingListing = {reqs[1].resp.alertId, reqs[2].resp.alertId}

\* the id by which a deployment answers for the alert object ref
AnsweredId(ref) == IF deployment = "express" THEN ref ELSE alertObjs[ref].id

\* an ingest answered as a duplicate is answered at once with 200 and the id
\* of a pending alert of equal fingerprint, and the step changes no store
C15_DuplicateStep ==
  IngestArrives =>
    LET r == reqs'[Len(reqs')]
    IN  r.resp.duplicate =>
          /\ r.pc = "done"
          /\ r.resp.status = 200
          /\ InSeq(pendingAlerts, r.ref)
          /\ alertObjs[r.ref].alertHash = generateAlertHash(r.alert, now)
          /\ r.resp.alertId = AnsweredId(r.ref)
          /\ UNCHANGED <<pendingAlerts, alertObjs, alertFiles, nextUuid, templateFiles,
                         documentFiles>>

\* the duplicate flag is only ever set when the ingest arrives
C15_FlagAtArrival ==
  \A i \in 1..Len(reqs) :
    (reqs[i].kind = "ingest" /\ reqs'[i].resp.duplicate) => reqs[i].resp.duplicate

\* C15: an ingest detected as a duplicate is answered with success, the
\* existing alert's id and duplicate=true, and changes no state: pending set,
\* stored alert records and the existing alert's fields stay as they were
C15_DuplicateNoEffect == [][C15_DuplicateStep /\ C15_FlagAtArrival]_vars

\* an accepted alert was ingested again and answered as its duplicate, one
\* alert pending and one stored
C15_Witness ==
  /\ Len(reqs) = 2
  /\ IngestAccepted(1) /\ ~reqs[1].resp.duplicate
  /\ IngestAccepted(2) /\ reqs[2].resp.duplicate
  /\ reqs[2].resp.alertId = reqs[1].resp.alertId
  /\ Len(pendingAlerts) = 1
  /\ Cardinality(DOMAIN alertFiles) = 1

\* C16: every accepted, non-duplicate alert that was answered with success
\* has a stored record, and no later ingest or process request removes it
C16_DurableRecord ==
  \A i \in 1..Len(reqs) :
    (IngestAccepted(i) /\ ~reqs[i].resp.duplicate) => reqs[i].ref \in DOMAIN alertFiles

\* C17: an ingest whose storage write failed is answered 500 and leaves the
\* pending set as it was: the failed alert is not queued and no later ingest
\* is answered as its duplicate
C17_FailedNotQueued ==
  \A i \in 1..Len(reqs) :
    (reqs[i].kind = "ingest" /\ reqs[i].resp.status = 500) =>
      /\ reqs[i].pc = "done"
      /\ ~InSeq(pendingAlerts, reqs[i].ref)
      /\ \A j \in 1..Len(reqs) :
           (reqs[j].kind = "ingest" /\ reqs[j].resp.duplicate) => reqs[j].ref # reqs[i].ref

\* the template id a stored document carries
DocTemplateId(doc) == IF deployment = "express" THEN doc.templateId ELSE doc.template_id

\* the store holds a template of that id
TemplatePresent(templateId) ==
  IF deployment = "express" THEN templateId \in DOMAIN templateFiles
  ELSE netlifyFind(templateFiles, templateId) # 0

\* a document persisted in this step carries the id (and in Express the name)
\* of a template the store held when the step began
C18_RenderedFromPresent ==
  \A d \in DOMAIN documentFiles' \ DOMAIN documentFiles :
    /\ TemplatePresent(DocTemplateId(documentFiles'[d]))
    /\ deployment = "express" =>
         documentFiles'[d].templateName = templateFiles[documentFiles'[d].templateId].name

\* a template update or delete request arrives or moves on in this step
TemplateChangeStep ==
  \E i \in 1..Len(reqs') :
    /\ reqs'[i].kind \in {"updateTemplate", "deleteTemplate"}
    /\ i > Len(reqs) \/ reqs'[i].pc # reqs[i].pc

\* no step of a template update or delete touches a stored document
C18_DocumentsKept == TemplateChangeStep => documentFiles' = documentFiles

\* C18: every document persisted by a render carries the templateId of a
\* template present in the store during that render, and deleting or
\* updating the template afterwards leaves the stored document unchanged and
\* retrievable
C18_DocumentOutlivesTemplate == [][C18_RenderedFromPresent /\ C18_DocumentsKept]_vars

\* a document is stored whose template has since been deleted
C18_Witness ==
  /\ deployment = "express"
  /\ \E i \in 1..Len(reqs) :
       /\ reqs[i].kind = "deleteTemplate" /\ reqs[i].resp.status = 200
       /\ \E d \in DOMAIN documentFiles :
            /\ documentFiles[d].templateId = reqs[i].templateId
            /\ documentFiles[d].templateId \notin DOMAIN templateFiles

\* the value part of the first tag of shape key:value with that key: every
\* piece after the key, or nothing when no tag has the key
ValuePart(tags, key) ==
  IF ~tags.isArray THEN Empty
  ELSE LET hits == {i \in 1..Len(tags.items) :
                      /\ tags.items[i] # NotAString
                      /\ Len(tags.items[i]) >= 2
                      /\ tags.items[i][1] = key}
       IN  IF hits = {} THEN Empty ELSE Tail(tags.items[Min(hits)])

\* C19: host.environment, host.service, host.team and host.region are the
\* value part (everything after the key and its colon) of the first tag
\* key:value whose key is env (else environment), service, team, region;
\* other tags are ignored; no tags or tags that are no list give ""
C19_HostFromTags ==
  \A i \in 1..Len(reqs) :
    reqs[i].kind = "hostContext" =>
      LET tags == reqs[i].tags
          host == reqs[i].result
      IN  /\ host.environment = (IF ValuePart(tags, "env") # Empty THEN ValuePart(tags, "env")
                                 ELSE ValuePart(tags, "environment"))
          /\ host.service = ValuePart(tags, "service")
          /\ host.team = ValuePart(tags, "team")
          /\ host.region = ValuePart(tags, "region")

\* request c is a template create with a name and a body that are not blank,
\* answered with the created template
CreateSucceeded(c) ==
  /\ reqs[c].kind = "createTemplate" /\ reqs[c].resp.status = 201
  /\ Truthy(trim(reqs[c].input.name)) /\ Truthy(trim(reqs[c].input.content))

\* request k is a render from the template of that id
RendersFrom(k, templateId) ==
  reqs[k].kind \in {"process", "generate"} /\ reqs[k].templateId = templateId

\* the usage count of the template a get of that id answers, -1 for none
UsageAnswered(g, templateId) ==
  IF deployment = "express"
  THEN IF reqs[g].templateId = templateId /\ reqs[g].found
       THEN reqs[g].template.usageCount ELSE 0 - 1
  ELSE LET found == netlifyFind(reqs[g].templates, templateId)
       IN  IF found # 0 THEN reqs[g].templates[found].usage_count ELSE 0 - 1

\* C20: a template create followed by a get of the returned id, with no
\* render of that template in between, returns a template whose usageCount
\* is 0
C20_CreateThenGet ==
  \A c, g \in 1..Len(reqs) :
    (/\ c < g
     /\ CreateSucceeded(c)
     /\ reqs[g].kind = "getTemplate" /\ reqs[g].resp.status = 200
     /\ deployment = "express" => reqs[g].templateId = reqs[c].templateId
     /\ \A k \in (c + 1)..(g - 1) :
          /\ ~RendersFrom(k, reqs[c].templateId)
          /\ reqs[k].kind # "deleteTemplate"
     /\ ioFailures = 0)
    => UsageAnswered(g, reqs[c].templateId) = 0

\* a delete request arrives in this step
DeleteArrives ==
  Len(reqs') = Len(reqs) + 1 /\ reqs'[Len(reqs')].kind = "deleteTemplate"

\* a delete of an id the store does not hold is answered NotFound at once and
\* leaves the store as it was
C21_UnknownNotFound ==
  (DeleteArrives /\ ~TemplatePresent(reqs'[Len(reqs')].templateId)) =>
    /\ reqs'[Len(reqs')].pc = "done"
    /\ reqs'[Len(reqs')].resp.status = 404
    /\ UNCHANGED <<templateFiles, documentFiles>>

\* of two deletes of one id in a row, the second is answered NotFound when
\* the first was answered with success
C21_SecondNotFound ==
  \A i \in 1..(Len(reqs) - 1) :
    (/\ reqs[i].kind = "deleteTemplate" /\ reqs[i + 1].kind = "deleteTemplate"
     /\ reqs[i].templateId = reqs[i + 1].templateId
     /\ reqs[i].resp.status = 200
     /\ reqs[i + 1].pc = "done")
    => reqs[i + 1].resp.status = 404

\* C21: deleting a template id that is not in the store returns NotFound and
\* leaves the store unchanged; deleting an existing template twice in a row
\* returns success the first time and NotFound the second time
C21_DeleteTwice == [] C21_SecondNotFound /\ [][C21_UnknownNotFound]_vars

\* a create whose name or body is missing or empty is answered 400; every
\* stored template has a name and a body that are not empty; a template
\* created without a category has category "general"
C22_Validated ==
  /\ \A i \in 1..Len(reqs) :
       reqs[i].kind = "createTemplate" =>
         /\ (~Truthy(Field(reqs[i].input, "name")) \/ ~Truthy(Field(reqs[i].input, "content")))
              => reqs[i].resp.status = 400
         /\ (reqs[i].resp.status = 201 /\ Field(reqs[i].input, "category") = Undef)
              => reqs[i].template.category = <<"general">>
  /\ \A ref \in DOMAIN templateFiles :
       Truthy(templateFiles[ref].name) /\ Truthy(templateFiles[ref].content)

\* a create answered 400 stores nothing
C22_RejectStoresNothing ==
  (Len(reqs') = Len(reqs) + 1 /\ reqs'[Len(reqs')].kind = "createTemplate"
     /\ reqs'[Len(reqs')].resp.status = 400)
  => UNCHANGED <<templateFiles, nextUuid>>

\* C22: template create rejects with 400, storing nothing, whenever name or
\* body is missing or empty; so every stored template has a non-empty name
\* and a non-empty body; and a create without a category stores category
\* "general"
C22_CreateValidation == [] C22_Validated /\ [][C22_RejectStoresNothing]_vars

\* a value that is absent, empty or made of whitespace only
BlankOrAbsent(v) == v = Undef \/ (v # NotAString /\ \A k \in 1..Len(v) : v[k] = Blank)

\* a document update request moves on in this step
DocumentUpdateStep(i) ==
  /\ i \in 1..Len(reqs)
  /\ reqs[i].kind = "updateDocument"
  /\ reqs'[i].pc # reqs[i].pc

\* the step of an update leaves every other document alone, and the updated
\* document keeps a blank or absent title or content, an absent status, and
\* its id, createdAt, templateId, priority and source alert
C23_UpdateStep ==
  \A i \in 1..Len(reqs) :
    DocumentUpdateStep(i) =>
      LET input == reqs[i].input
          d == reqs[i].documentId
      IN  /\ DOMAIN documentFiles' = DOMAIN documentFiles
          /\ \A x \in DOMAIN documentFiles \ {d} : documentFiles'[x] = documentFiles[x]
          /\ reqs'[i].resp.status # 200 => documentFiles' = documentFiles
          /\ d \in DOMAIN documentFiles =>
               LET old == documentFiles[d]
                   new == documentFiles'[d]
               IN  /\ BlankOrAbsent(Field(input, "title")) => new.title = old.title
                   /\ BlankOrAbsent(Field(input, "content")) => new.content = old.content
                   /\ "status" \notin DOMAIN input => new.status = old.status
                   /\ new.id = old.id /\ new.createdAt = old.createdAt
                   /\ new.templateId = old.templateId /\ new.priority = old.priority
                   /\ new.originalAlert = old.originalAlert
                   /\ new.alertType = old.alertType /\ new.templateName = old.templateName

\* C23: document update is partial: a title or content that is absent, empty
\* or whitespace-only leaves the stored value as it was, an absent status
\* leaves the stored status, and id, createdAt, templateId, priority and the
\* source alert are never changed by an update
C23_PartialUpdate == [][C23_UpdateStep]_vars

\* an update with a whitespace-only title and a new content was answered
\* with success: the stored document has the new content under the title
\* the render gave it
C23_Witness ==
  \E p, u \in 1..Len(reqs) :
    /\ reqs[p].kind = "process" /\ reqs[p].resp.status = 200
    /\ reqs[u].kind = "updateDocument" /\ reqs[u].resp.status = 200
    /\ reqs[u].documentId = reqs[p].resp.documentId
    /\ reqs[u].input = [title |-> <<Blank>>, content |-> <<"Fixed", Blank>>]
    /\ documentFiles[reqs[u].documentId].title = reqs[p].doc.title
    /\ documentFiles[reqs[u].documentId].content = <<"Fixed">>
    /\ documentFiles[reqs[u].documentId].updatedAt >= reqs[u].at

\* ------------------------------------------------------------------------
\* C24: the alert-detail lookup follows the alert from pending to processed
\* ------------------------------------------------------------------------

\* an ingest accepted the alert of this id as a new alert
AlertAccepted(alertId) ==
  \E k \in 1..Len(reqs) :
    /\ reqs[k].kind = "ingest" /\ reqs[k].pc = "done"
    /\ reqs[k].resp.status = 200 /\ ~reqs[k].resp.duplicate
    /\ reqs[k].resp.alertId = alertId

\* the process requests that succeeded for the alert of this id
ProcessedBy(alertId) ==
  {p \in 1..Len(reqs) :
     /\ reqs[p].kind = "process" /\ reqs[p].pc = "done"
     /\ reqs[p].alertId = alertId /\ reqs[p].resp.status = 200}

\* this step answers the alert-detail request j from the Map or the file
AlertGetAnswers(j) ==
  /\ j \in 1..Len(reqs')
  /\ reqs'[j].kind = "alertGet" /\ reqs'[j].pc = "done"
  /\ reqs'[j].resp.status # 500
  /\ (j > Len(reqs) \/ reqs[j].pc # "done")

C24_LookupStep ==
  \A j \in 1..Len(reqs') :
    AlertGetAnswers(j) /\ AlertAccepted(reqs'[j].alertId) =>
      LET g == reqs'[j]
          done == ProcessedBy(g.alertId)
      IN  /\ g.resp.status = 200
          /\ g.found.id = g.alertId
          /\ IF done = {}
             THEN /\ g.found.status = "pending_template_selection"
                  /\ g.found.documentId = NoId
             ELSE \E p \in done :
                    /\ g.found.status = "processed"
                    /\ g.found.documentId = reqs[p].resp.documentId
                    /\ g.found.templateId = reqs[p].templateId

\* C24: an alert-detail lookup of an accepted alert returns the record with
\* status processed, the document's id and the template used once a process
\* request has succeeded for it, and with status pending and no document id
\* until then.
C24_AlertDetail == [][C24_LookupStep]_vars

\* the lookup of an alert no process request has succeeded for is answered
\* with status processed
C24_ProcessedWithoutSuccess ==
  \E j \in 1..Len(reqs) :
    /\ reqs[j].kind = "alertGet" /\ reqs[j].pc = "done" /\ reqs[j].resp.status = 200
    /\ ProcessedBy(reqs[j].alertId) = {}
    /\ reqs[j].found.status = "processed"

\* no write of a marked alert has failed
NoFailedAlertWrite ==
  \A p \in 1..Len(reqs) :
    reqs[p].kind = "process" /\ reqs[p].pc = "done" /\ "snapshot" \in DOMAIN reqs[p]
      => reqs[p].resp.status = 200

\* the lookup is as stated in every run where the write of line 210 succeeds
C24_WhenWritesSucceed == [][NoFailedAlertWrite => C24_LookupStep]_vars

\* a lookup after a successful process is answered from the file
C24_ProcessedSeen ==
  \E j \in 1..Len(reqs) :
    /\ reqs[j].kind = "alertGet" /\ reqs[j].pc = "done" /\ reqs[j].resp.status = 200
    /\ ProcessedBy(reqs[j].alertId) # {}
    /\ reqs[j].found.status = "processed"

\* ------------------------------------------------------------------------
\* C25: deduplication looks at the pending alerts only
\* ------------------------------------------------------------------------

\* the alert objects that carry a fingerprint
AlertsOfHash(alertHash) ==
  {ref \in DOMAIN alertObjs : alertObjs[ref].alertHash = alertHash}

\* the alert object was processed with success and left the pending set
ProcessedAndRemoved(ref) ==
  /\ ~InSeq(pendingAlerts, ref)
  /\ \E p \in 1..Len(reqs) :
       /\ ProcessSucceeded(p) /\ reqs[p].pc = "done"
       /\ "ref" \in DOMAIN reqs[p] /\ reqs[p].ref = ref

\* the ids the alerts created so far were answered with
IdsInUse == {AnsweredId(ref) : ref \in DOMAIN alertObjs}

\* an ingest whose fingerprint only processed and removed alerts carry
ArrivesAfterProcessing(r) ==
  /\ r.resp.status # 400
  /\ AlertsOfHash(r.alertHash) # {}
  /\ \A ref \in AlertsOfHash(r.alertHash) : ProcessedAndRemoved(ref)

C25_ArrivalStep ==
  IngestArrives =>
    LET r == reqs'[Len(reqs')]
    IN  ArrivesAfterProcessing(r) =>
          /\ ~r.resp.duplicate
          /\ r.pc # "done"
          /\ IF deployment = "express"
             THEN r.ref \notin IdsInUse
             ELSE alertObjs'[r.ref].id \notin IdsInUse

\* C25: once an alert has been processed and removed from the pending set,
\* an ingest with the same fingerprint in the same 5-minute bucket is
\* accepted as a new alert with a fresh id and no duplicate flag.
C25_DedupOnlyPending == [][C25_ArrivalStep]_vars

\* the same holds of the Express server alone
C25_Express == [][deployment = "express" => C25_ArrivalStep]_vars

\* the Netlify function never answers such an ingest as a duplicate
C25_NetlifyNotDuplicate ==
  [][(deployment = "netlify" /\ IngestArrives) =>
       (ArrivesAfterProcessing(reqs'[Len(reqs')]) =>
          ~reqs'[Len(reqs')].resp.duplicate /\ reqs'[Len(reqs')].pc # "done")]_vars

\* an alert was processed and its like was then taken in as a new alert
C25_Reingested ==
  /\ deployment = "express"
  /\ Len(reqs) = 3
  /\ IngestAccepted(1) /\ ProcessSucceeded(2) /\ IngestAccepted(3)
  /\ reqs[2].pc = "done" /\ reqs[3].pc = "done"
  /\ reqs[3].alertHash = reqs[1].alertHash
  /\ ~reqs[3].resp.duplicate
  /\ reqs[3].resp.alertId # reqs[1].resp.alertId

\* ------------------------------------------------------------------------
\* C26: one document per pending alert
\* ------------------------------------------------------------------------

\* process request i has generated a document and saveDocument has written it
PersistedDocument(i) ==
  /\ reqs[i].kind = "process"
  /\ "doc" \in DOMAIN reqs[i]
  /\ reqs[i].pc # "save"
  /\ reqs[i].doc.id \in DOMAIN documentFiles

\* C26: of the process requests for one alertId, whatever their interleaving,
\* at most one generates and persists a document, and none of the others is
\* answered with success.
C26_OneDocumentPerAlert ==
  \A i, j \in 1..Len(reqs) :
    (/\ i # j
     /\ reqs[i].kind = "process" /\ reqs[j].kind = "process"
     /\ reqs[i].alertId = reqs[j].alertId
     /\ reqs[i].templateId # NoId /\ reqs[j].templateId # NoId
     /\ PersistedDocument(i))
    => /\ ~PersistedDocument(j)
       /\ reqs[j].pc = "done" => reqs[j].resp.status # 200

\* two overlapping process requests for one alert were both answered with
\* success, each with a document of its own
C26_TwoDocuments ==
  /\ Len(reqs) = 3
  /\ reqs[2].kind = "process" /\ reqs[3].kind = "process"
  /\ reqs[2].alertId = reqs[3].alertId
  /\ reqs[2].pc = "done" /\ reqs[3].pc = "done"
  /\ reqs[2].resp.status = 200 /\ reqs[3].resp.status = 200
  /\ reqs[2].resp.documentId # reqs[3].resp.documentId
  /\ ioFailures = 0

\* at most one document per alert when the second request arrives after the
\* first was answered with success
C26_AfterSuccess ==
  \A i, j \in 1..Len(reqs) :
    (/\ i < j
     /\ deployment = "express"
     /\ reqs[i].kind = "process" /\ reqs[j].kind = "process"
     /\ reqs[i].alertId = reqs[j].alertId
     /\ reqs[j].templateId # NoId
     /\ reqs[i].pc = "done" /\ reqs[i].resp.status = 200)
    => reqs[j].pc = "done" /\ reqs[j].resp.status = 404

\* ------------------------------------------------------------------------
\* C27: the pending set holds pending alerts only
\* ------------------------------------------------------------------------

PendingStatuses == {"pending_template_selection", "pending"}

\* C27: every alert held in the in-memory pending set has status pending, in
\* every reachable state: also while a process request awaits its storage
\* write and after that write has failed.
C27_PendingSetIsPending ==
  \A k \in 1..Len(pendingAlerts) : alertObjs[pendingAlerts[k]].status \in PendingStatuses

\* the Netlify function marks and removes in one step and keeps the invariant
C27_Netlify == deployment = "netlify" => C27_PendingSetIsPending

\* no request is in flight, and an alert marked processed is in the pending
\* set after its process request was answered 500
C27_ProcessedStillPending ==
  /\ Idle
  /\ \E p \in 1..Len(reqs) :
       /\ reqs[p].kind = "process" /\ reqs[p].resp.status = 500
       /\ InSeq(pendingAlerts, reqs[p].alertId)
       /\ alertObjs[reqs[p].alertId].status = "processed"

\* an ingest was answered as the duplicate of an alert marked processed
C27_DuplicateOfProcessed ==
  /\ deployment = "express"
  /\ \E p, j \in 1..Len(reqs) :
       /\ p < j
       /\ reqs[p].kind = "process" /\ reqs[p].resp.status = 500
       /\ "snapshot" \in DOMAIN reqs[p]
       /\ reqs[j].kind = "ingest" /\ reqs[j].resp.duplicate
       /\ reqs[j].ref = reqs[p].alertId

\* ------------------------------------------------------------------------
\* C28: usageCount counts the documents generated from a template
\* ------------------------------------------------------------------------

\* the documents generated from a template
DocumentsFrom(templateId) ==
  {d \in DOMAIN documentFiles : documentFiles[d].templateId = templateId}

\* C28: once every request has been answered, the stored usageCount of each
\* template that exists equals the number of documents generated from it,
\* whatever the interleaving of the renders and the template updates.
C28_UsageCountsDocuments ==
  Idle => \A t \in DOMAIN templateFiles :
            templateFiles[t].usageCount = Cardinality(DocumentsFrom(t))

\* two alerts were rendered from one template by overlapping requests, no
\* storage call failed, and the template counts one use
C28_LostIncrement ==
  /\ Idle /\ ioFailures = 0
  /\ Cardinality(DocumentsFrom(1)) = 2
  /\ \A i, j \in 1..Len(reqs) :
       (i # j /\ reqs[i].kind = "process" /\ reqs[j].kind = "process")
         => reqs[i].alertId # reqs[j].alertId
  /\ templateFiles[1].usageCount = 1

\* a render's increment was overwritten by a template update, no storage
\* call failed
C28_LostToUpdate ==
  /\ Idle /\ ioFailures = 0
  /\ Cardinality(DocumentsFrom(1)) = 1
  /\ templateFiles[1].usageCount = 0
  /\ templateFiles[1].description = <<"Runbook">>

\* with one request at a time and no failed storage call the counts agree
C28_Sequential == ioFailures = 0 => C28_UsageCountsDocuments

\* ------------------------------------------------------------------------
\* C29: ids are unique per entity type
\* ------------------------------------------------------------------------

\* the elements of a store carry pairwise different ids (the Express stores
\* are keyed by id, the Netlify stores are arrays of elements)
DistinctIds(files) ==
  \A a, b \in DOMAIN files :
    a # b => files[a].id # files[b].id

\* two ingests accepted as new alerts were answered with different ids
DistinctAlertIds ==
  \A i, j \in 1..Len(reqs) :
    (/\ i # j
     /\ IngestAccepted(i) /\ IngestAccepted(j)
     /\ reqs[i].pc = "done" /\ reqs[j].pc = "done"
     /\ ~reqs[i].resp.duplicate /\ ~reqs[j].resp.duplicate)
    => reqs[i].resp.alertId # reqs[j].resp.alertId

\* C29: any two distinct templates, any two distinct documents and any two
\* distinct accepted alerts have different ids, also when both were created
\* at the same clock reading.
C29_UniqueIds ==
  /\ DistinctAlertIds
  /\ DistinctIds(alertObjs)
  /\ DistinctIds(templateFiles)
  /\ DistinctIds(documentFiles)

\* the Express server, whose ids are uuids, keeps them apart
C29_Express == deployment = "express" => C29_UniqueIds

\* two ingests with different titles were accepted as new alerts under one id
C29_TwoAlertsOneId ==
  \E i, j \in 1..Len(reqs) :
    /\ i < j
    /\ IngestAccepted(i) /\ IngestAccepted(j)
    /\ reqs[i].pc = "done" /\ reqs[j].pc = "done"
    /\ ~reqs[i].resp.duplicate /\ ~reqs[j].resp.duplicate
    /\ TitleOf(i) # TitleOf(j)
    /\ reqs[i].resp.alertId = reqs[j].resp.alertId

\* two ingests whose payloads carry no id were accepted as new alerts at one
\* clock reading under one id
C29_SameClockOneId ==
  \E i, j \in 1..Len(reqs) :
    /\ i < j
    /\ IngestAccepted(i) /\ IngestAccepted(j)
    /\ reqs[i].pc = "done" /\ reqs[j].pc = "done"
    /\ ~reqs[i].resp.duplicate /\ ~reqs[j].resp.duplicate
    /\ Field(reqs[i].alert, "id") = Undef /\ Field(reqs[j].alert, "id") = Undef
    /\ reqs[i].at = reqs[j].at
    /\ reqs[i].resp.alertId = reqs[j].resp.alertId

\* the template store holds two templates of one id
C29_TwoTemplatesOneId == ~DistinctIds(templateFiles)

\* the document store holds two documents of one id
C29_TwoDocumentsOneId == ~DistinctIds(documentFiles)

\* ------------------------------------------------------------------------
\* C30: the document is persisted before the alert is marked processed
\* ------------------------------------------------------------------------

\* an alert record marked processed names a document of the document store
NamesStoredDocument(alertData) ==
  alertData.status = "processed" => alertData.documentId \in DOMAIN documentFiles

ProcessedHaveDocument ==
  deployment = "express" =>
    /\ \A id \in DOMAIN alertFiles : NamesStoredDocument(alertFiles[id])
    /\ \A id \in DOMAIN alertObjs : NamesStoredDocument(alertObjs[id])

\* saveDocument of process request i throws in this step
SaveFails(i) ==
  /\ reqs[i].kind = "process" /\ reqs[i].pc = "save"
  /\ reqs'[i].pc = "done"

StillPending(alertData) ==
  alertData.status = "pending_template_selection" /\ alertData.documentId = NoId

C30_SaveFailureStep ==
  \A i \in 1..Len(reqs) :
    SaveFails(i) =>
      /\ reqs'[i].resp.status = 500
      /\ UNCHANGED <<pendingAlerts, alertObjs, alertFiles, documentFiles>>
      /\ InSeq(pendingAlerts', reqs[i].alertId)
      /\ StillPending(alertObjs'[reqs[i].alertId])
      /\ StillPending(alertFiles'[reqs[i].alertId])

\* C30: whenever an alert record has status processed with documentId d, a
\* document of id d is in the document store, and a failure while saving the
\* document leaves the alert pending with documentId null.
C30_DocumentBeforeMark == [][ProcessedHaveDocument' /\ C30_SaveFailureStep]_vars

\* a process request failed while saving its document, and a later one for
\* the same alert succeeded
C30_Witness ==
  /\ Len(reqs) = 3
  /\ reqs[2].kind = "process" /\ reqs[2].pc = "done" /\ reqs[2].resp.status = 500
  /\ "doc" \in DOMAIN reqs[2] /\ reqs[2].doc.id \notin DOMAIN documentFiles
  /\ ProcessSucceeded(3) /\ reqs[3].pc = "done"
  /\ reqs[3].alertId = reqs[2].alertId
  /\ alertFiles[reqs[3].alertId].status = "processed"
  /\ alertFiles[reqs[3].alertId].documentId = reqs[3].resp.documentId
  /\ reqs[3].resp.documentId \in DOMAIN documentFiles

\* the order itself: in every state an alert record marked processed names a
\* document that is in the store
C30_MarkedAfterSave == [][ProcessedHaveDocument']_vars

\* a failed save leaves the alert pending in every run where no write of a
\* marked alert (line 210) has failed before
C30_WhenWritesSucceed ==
  [][NoFailedAlertWrite => (ProcessedHaveDocument' /\ C30_SaveFailureStep)]_vars

\* a save failed for an alert that an earlier, failed process request had
\* left marked processed in the pending Map
C30_FailedSaveOfMarked ==
  \E p, q \in 1..Len(reqs) :
    /\ p < q
    /\ reqs[p].kind = "process" /\ reqs[q].kind = "process"
    /\ reqs[p].alertId = reqs[q].alertId
    /\ reqs[p].pc = "done" /\ reqs[p].resp.status = 500 /\ "snapshot" \in DOMAIN reqs[p]
    /\ reqs[q].pc = "done" /\ reqs[q].resp.status = 500
    /\ "doc" \in DOMAIN reqs[q] /\ reqs[q].doc.id \notin DOMAIN documentFiles
    /\ alertObjs[reqs[q].alertId].status = "processed"
    /\ InSeq(pendingAlerts, reqs[q].alertId)

====
